---- MODULE Spec2Model ----
(***************************************************************************)
(* A model of the class runtime of the JVM in src/: the field-layout       *)
(* algorithm (model/field.rs), the constant-pool resolution cache          *)
(* (model/constant_pool.rs, model/class.rs), the class library             *)
(* (model/class_library.rs), the call convention of the interpreter on the *)
(* shared operand stack (model/stack.rs, interpreter/mod.rs,               *)
(* model/heap.rs) and the method table with the native compiler            *)
(* (model/method.rs, jit/mod.rs).                                          *)
(***************************************************************************)
EXTENDS Integers, Sequences, FiniteSets, TLC

(***************************************************************************)
(* Bounds of the model.                                                    *)
(***************************************************************************)
\* classes in one superclass chain whose instance layouts are computed
MaxChain == 3
\* fields declared over the whole chain
MaxTotalFields == 4
\* classes the library holds
MaxClasses == 5
\* calls waiting for a class initialiser, the initialisers included
MaxFrames == 5
\* 32-bit slots of the operand stack region
StackSlots == 8
\* interpret_method calls that are active at once, main included
MaxCallDepth == 3
\* objects instantiated
MaxObjects == 1
\* bytes of the heap
HeapBytes == 24

\* methods added to the method table of the table specification
MaxMethods == 2

\* executable buffers the native compiler creates
MaxBuffers == 1

\* values pushed on the evaluation stack and not yet popped
MaxPushes == 2

(***************************************************************************)
(* JvmType (model/types.rs).                                               *)
(***************************************************************************)
JvmTypes ==
    {"Void", "Byte", "Char", "Integer", "Long", "Float", "Double",
     "Reference", "Short", "Boolean"}

\* JvmType::size
size(ty) ==
    CASE ty = "Void" -> 0
      [] ty = "Byte" -> 1
      [] ty = "Char" -> 1
      [] ty = "Integer" -> 4
      [] ty = "Long" -> 8
      [] ty = "Float" -> 4
      [] ty = "Double" -> 8
      [] ty = "Reference" -> 2
      [] ty = "Short" -> 2
      [] ty = "Boolean" -> 1

\* JvmType::alignment is called by layout_fields but is not part of src/;
\* the specification states "alignment equal to its size".
alignment(ty) == size(ty)

(***************************************************************************)
(* Field layout (model/field.rs).                                          *)
(***************************************************************************)
FieldNames == {"a", "b", "c", "d"}

\* The types a declared field is drawn from: one type of every size.
FieldTypes == {"Byte", "Short", "Integer", "Long"}

\* FieldDescriptor, reduced to what layout_fields reads
FieldDescriptor == [name : FieldNames, ty : FieldTypes]

\* FieldLayout::empty
EmptyLayout == [length |-> 0, fields |-> <<>>, spaces |-> <<>>]

\* HashMap::insert on the name -> (offset, type) mapping, kept as a function
MapInsert(map, name, value) ==
    [n \in (DOMAIN map) \cup {name} |-> IF n = name THEN value ELSE map[n]]

\* `let value = ...;` of the source: Body is applied to the value
With(value, Body(_)) == Body(value)

\* Vec::remove(i)
RemoveAt(s, i) == SubSeq(s, 1, i - 1) \o SubSeq(s, i + 1, Len(s))

\* The stable insertion that sort_by performs with the inverted comparison
\* second.size().cmp(first.size()): descending size, ties in declaration order.
RECURSIVE InsertBySize(_, _)
InsertBySize(sorted, f) ==
    IF sorted = <<>> THEN <<f>>
    ELSE IF size(Head(sorted).ty) >= size(f.ty)
         THEN <<Head(sorted)>> \o InsertBySize(Tail(sorted), f)
         ELSE <<f>> \o sorted

RECURSIVE sort_by_size(_)
sort_by_size(fs) ==
    IF fs = <<>> THEN <<>>
    ELSE InsertBySize(sort_by_size(SubSeq(fs, 1, Len(fs) - 1)), fs[Len(fs)])

\* The inner loop `for i in 0..spaces.len()`: the first space, in list order,
\* that is an exact fit or larger; 0 when there is none.
first_fit(spaces, sz) ==
    LET fits == {i \in 1..Len(spaces) : spaces[i].length >= sz}
    IN  IF fits = {} THEN 0 ELSE CHOOSE i \in fits : \A j \in fits : i <= j

\* place_in_space that leaves the free space as it was
place_in_space_kept(st, field, i) ==
    [length |-> st.length,
     fields |-> MapInsert(st.fields, field.name,
                          [offset |-> st.spaces[i].index, ty |-> field.ty]),
     spaces |-> st.spaces]

\* A field placed into spaces[i]: the exact fit removes the space, a larger
\* space gives up its low part.
place_in_space(st, field, i) ==
    LET sp == st.spaces[i]
        sz == size(field.ty)
    IN  [length |-> st.length,
         fields |-> MapInsert(st.fields, field.name,
                              [offset |-> sp.index, ty |-> field.ty]),
         spaces |-> IF sp.length = sz
                    THEN RemoveAt(st.spaces, i)
                    ELSE [st.spaces EXCEPT
                            ![i] = [index |-> sp.index + sz,
                                    length |-> sp.length - sz]]]

\* place_at_end without the alignment padding (mutant).
place_at_end_unpadded(st, field) ==
    [length |-> st.length + size(field.ty),
     fields |-> MapInsert(st.fields, field.name,
                          [offset |-> st.length, ty |-> field.ty]),
     spaces |-> st.spaces]

\* A field appended after all others, behind its alignment padding, which
\* becomes a new free space.
place_at_end(st, field) ==
    LET al == alignment(field.ty)
        alignment_space ==
            IF st.length % al = 0 THEN 0 ELSE al - (st.length % al)
    IN  [length |-> st.length + alignment_space + size(field.ty),
         fields |-> MapInsert(st.fields, field.name,
                              [offset |-> st.length + alignment_space,
                               ty |-> field.ty]),
         spaces |-> IF alignment_space = 0 THEN st.spaces
                    ELSE Append(st.spaces, [index |-> st.length,
                                            length |-> alignment_space])]

\* The loop labelled 'field. Placing a field into a free space ends with
\* `break 'field`, which leaves the labelled loop: the fields after it are
\* not visited.
RECURSIVE place_fields(_, _)
place_fields(st, fields_to_place) ==
    IF fields_to_place = <<>> THEN st
    ELSE LET field == Head(fields_to_place)
             i == first_fit(st.spaces, size(field.ty))
         IN  IF i # 0
             THEN place_in_space(st, field, i)
             ELSE place_fields(place_at_end(st, field), Tail(fields_to_place))

layout_fields(parent_layout, fields) ==
    place_fields(parent_layout, sort_by_size(fields))

(***************************************************************************)
(* Class files: what BootstrapClassLoader::load_class and                  *)
(* class_parser::parse deliver for a class name.  "Object" and "Test" are  *)
(* the two classes main loads; A declares a class initialiser, B extends A *)
(* and overrides greet.                                                    *)
(***************************************************************************)
None == <<>>
Some(x) == <<x>>

\* class_parser Method / MethodDescriptor, reduced to what the runtime reads
Method(name, parameters, return_type, max_stack, max_locals, is_virtual) ==
    [name |-> name, parameters |-> parameters, return_type |-> return_type,
     max_stack |-> max_stack, max_locals |-> max_locals,
     is_virtual |-> is_virtual, has_code |-> TRUE]

ClassNames == {"Object", "Test", "A", "B"}

ClassFiles ==
    [n \in ClassNames |->
        CASE n = "Object" ->
               [name |-> "Object", super_class |-> None,
                static_fields |-> <<>>, fields |-> <<>>,
                static_methods |-> <<>>,
                methods |-> <<Method("<init>", <<>>, "Void", 0, 1, TRUE)>>]
          [] n = "Test" ->
               [name |-> "Test", super_class |-> Some("Object"),
                static_fields |-> <<>>, fields |-> <<>>,
                static_methods |->
                    <<Method("main", <<>>, "Void", 3, 1, FALSE),
                      Method("run", <<"Integer">>, "Void", 2, 1, FALSE)>>,
                methods |-> <<>>]
          [] n = "A" ->
               [name |-> "A", super_class |-> Some("Object"),
                static_fields |-> <<[name |-> "s", ty |-> "Integer",
                                   constant_value |-> None]>>,
                fields |-> <<[name |-> "v", ty |-> "Long",
                            constant_value |-> None]>>,
                static_methods |->
                    <<Method("<clinit>", <<>>, "Void", 1, 0, FALSE),
                      Method("s", <<"Integer">>, "Integer", 1, 1, FALSE)>>,
                methods |->
                    <<Method("v", <<"Integer">>, "Long", 2, 3, TRUE),
                      Method("greet", <<>>, "Integer", 1, 1, TRUE)>>]
          [] n = "B" ->
               [name |-> "B", super_class |-> Some("A"),
                static_fields |-> <<>>,
                fields |-> <<[name |-> "w", ty |-> "Integer",
                            constant_value |-> None]>>,
                static_methods |->
                    <<Method("s", <<"Integer">>, "Integer", 1, 1, FALSE)>>,
                methods |->
                    <<Method("greet", <<>>, "Integer", 1, 1, TRUE)>>]]

(***************************************************************************)
(* The method table (model/method.rs).                                     *)
(***************************************************************************)
RECURSIVE SumSizes(_)
SumSizes(parameters) ==
    IF parameters = <<>> THEN 0
    ELSE size(Head(parameters)) + SumSizes(Tail(parameters))

\* MethodDescriptor::parameter_count
parameter_count(desc) ==
    (SumSizes(desc.parameters) \div 4) + (IF desc.is_virtual THEN 1 ELSE 0)

\* MethodData::from_bytecode_descriptor
from_bytecode_descriptor(desc, owning_class) ==
    [name |-> desc.name, max_stack |-> desc.max_stack,
     max_locals |-> desc.max_locals, owning_class |-> owning_class,
     argument_count |-> parameter_count(desc),
     return_type |-> desc.return_type]

(***************************************************************************)
(* Class::new (model/class.rs).  Method indices are positions in the       *)
(* method table, counted from 0 as MethodTable::add_method hands them out. *)
(***************************************************************************)
\* the loop over data.static_methods
RECURSIVE add_static_methods(_, _, _, _)
add_static_methods(descs, static_methods, methods, index) ==
    IF descs = <<>>
    THEN [static_methods |-> static_methods, methods |-> methods]
    ELSE LET desc == Head(descs)
             method_index == Len(methods)
         IN  IF desc.has_code
             THEN add_static_methods(
                      Tail(descs),
                      MapInsert(static_methods, desc.name,
                                [method_index |-> method_index,
                                 parameter_count |-> Len(desc.parameters)]),
                      Append(methods, from_bytecode_descriptor(desc, index)),
                      index)
             ELSE add_static_methods(Tail(descs), static_methods, methods,
                                     index)

\* a loop over data.methods that appends every method, overriding or not
RECURSIVE add_virtual_methods_appending(_, _, _, _, _)
add_virtual_methods_appending(descs, virtual_methods, dispatch_table, methods, index) ==
    IF descs = <<>>
    THEN [virtual_methods |-> virtual_methods,
          dispatch_table |-> dispatch_table, methods |-> methods]
    ELSE IF ~Head(descs).has_code
    THEN add_virtual_methods_appending(Tail(descs), virtual_methods,
                                       dispatch_table, methods, index)
    ELSE add_virtual_methods_appending(
             Tail(descs),
             MapInsert(virtual_methods, Head(descs).name,
                       [method_index |-> Len(methods),
                        virtual_index |-> Len(dispatch_table),
                        parameter_count |-> Len(Head(descs).parameters)]),
             Append(dispatch_table, Len(methods)),
             Append(methods, from_bytecode_descriptor(Head(descs), index)),
             index)

\* the loop over data.methods: an inherited name keeps its virtual index and
\* parameter count and gets the new method index; a new name is appended.
RECURSIVE add_virtual_methods(_, _, _, _, _)
add_virtual_methods(descs, virtual_methods, dispatch_table, methods, index) ==
    IF descs = <<>>
    THEN [virtual_methods |-> virtual_methods,
          dispatch_table |-> dispatch_table, methods |-> methods]
    ELSE LET desc == Head(descs)
             method_index == Len(methods)
             methods2 ==
                 Append(methods, from_bytecode_descriptor(desc, index))
         IN  IF ~desc.has_code
             THEN add_virtual_methods(Tail(descs), virtual_methods,
                                      dispatch_table, methods, index)
             ELSE IF desc.name \in DOMAIN virtual_methods
             THEN LET old == virtual_methods[desc.name]
                  IN  add_virtual_methods(
                          Tail(descs),
                          [virtual_methods EXCEPT
                              ![desc.name].method_index = method_index],
                          [dispatch_table EXCEPT
                              ![old.virtual_index + 1] = method_index],
                          methods2, index)
             ELSE add_virtual_methods(
                      Tail(descs),
                      MapInsert(virtual_methods, desc.name,
                                [method_index |-> method_index,
                                 virtual_index |-> Len(dispatch_table),
                                 parameter_count |-> Len(desc.parameters)]),
                      Append(dispatch_table, method_index),
                      methods2, index)

\* Class::new: the class and the method table after its methods are added.
\* super_class is None or Some(class).
ClassNew(data, index, super_class, methods) ==
    With(IF super_class = None THEN
             [field_layout |-> EmptyLayout, static_methods |-> <<>>,
              virtual_methods |-> <<>>, dispatch_table |-> <<>>]
         ELSE super_class[1],
         LAMBDA parent :
    With(add_static_methods(data.static_methods, parent.static_methods,
                            methods, index),
         LAMBDA statics :
    With(add_virtual_methods(data.methods, parent.virtual_methods,
                             parent.dispatch_table, statics.methods, index),
         LAMBDA virtuals :
        [class |->
            [index |-> index,
             name |-> data.name,
             super_class |-> IF super_class = None THEN None
                             ELSE Some(super_class[1].index),
             static_field_layout |->
                 layout_fields(EmptyLayout, data.static_fields),
             field_layout |-> layout_fields(parent.field_layout, data.fields),
             \* what Heap::instantiate reads as class.field_descriptors()
             field_descriptors |-> data.fields,
             static_methods |-> statics.static_methods,
             virtual_methods |-> virtuals.virtual_methods,
             dispatch_table |-> virtuals.dispatch_table],
         methods |-> virtuals.methods])))

(***************************************************************************)
(* The class library (model/class_library.rs).  A library value is the     *)
(* record [classes, name_mappings, methods]; class index k is              *)
(* classes[k + 1].  A load that reaches Class::bootstrap of a class with a *)
(* "<clinit>" entry hands control to the interpreter: the calls waiting    *)
(* for it are kept as frames, the initialiser on top.                      *)
(***************************************************************************)
EmptyLibrary == [classes |-> <<>>, name_mappings |-> <<>>, methods |-> <<>>]

\* ClassLibrary::load from `let index = self.classes.len()` on: the class
\* is constructed, entered into name_mappings and classes, and bootstrapped.
\* super_class is None or Some(index the super class was resolved to).
finish_load(lib, fr, name, super_class, max_classes, max_frames) ==
    With(ClassNew(ClassFiles[name], Len(lib.classes),
                  IF super_class = None THEN None
                  ELSE Some(lib.classes[super_class[1] + 1]),
                  lib.methods),
         LAMBDA made :
    With([classes |-> Append(lib.classes, made.class),
          name_mappings |->
              MapInsert(lib.name_mappings, made.class.name,
                        made.class.index),
          methods |-> made.methods],
         LAMBDA lib2 :
        IF Len(lib.classes) >= max_classes
        THEN [status |-> "bound", lib |-> lib, frames |-> fr]
        ELSE IF "<clinit>" \in DOMAIN made.class.static_methods
        THEN IF Len(fr) >= max_frames
             THEN [status |-> "bound", lib |-> lib, frames |-> fr]
             ELSE [status |-> "suspended", lib |-> lib2,
                   frames |-> Append(fr, [kind |-> "clinit",
                                          class |-> made.class.index])]
        ELSE [status |-> "done", lib |-> lib2, frames |-> fr,
              index |-> made.class.index]))

\* ClassLibrary::resolve_by_name and ClassLibrary::load up to the resolution
\* of the super class.  A name without a class file panics in
\* BootstrapClassLoader::load_class.
RECURSIVE resolve_by_name(_, _, _, _, _)
resolve_by_name(lib, fr, name, max_classes, max_frames) ==
    IF name \in DOMAIN lib.name_mappings
    THEN [status |-> "done", lib |-> lib, frames |-> fr,
          index |-> lib.name_mappings[name]]
    ELSE IF name \notin DOMAIN ClassFiles
    THEN [status |-> "panic", lib |-> lib, frames |-> fr]
    ELSE IF ClassFiles[name].super_class = None
    THEN finish_load(lib, fr, name, None, max_classes, max_frames)
    ELSE With(resolve_by_name(
                  lib, Append(fr, [kind |-> "load", name |-> name]),
                  ClassFiles[name].super_class[1], max_classes, max_frames),
              LAMBDA sup :
                  IF sup.status = "done"
                  THEN finish_load(sup.lib, fr, name, Some(sup.index),
                                   max_classes, max_frames)
                  ELSE sup)

(***************************************************************************)
(* The constant pool of the class whose code runs (model/constant_pool.rs) *)
(***************************************************************************)
Utf8(string) == [tag |-> "Utf8", string |-> string]
ClassEntry(name) == [tag |-> "Class", name |-> name]
NameAndType(name, ty) == [tag |-> "NameAndType", name |-> name, ty |-> ty]
IntegerEntry(value) == [tag |-> "Integer", value |-> value]
UnresolvedField(class, name_and_type) ==
    [tag |-> "FieldReference", state |-> "Unresolved",
     class |-> class, name_and_type |-> name_and_type]
ResolvedField(info, class) ==
    [tag |-> "FieldReference", state |-> "Resolved",
     info |-> info, class |-> class]
UnresolvedMethod(class, name_and_type) ==
    [tag |-> "MethodReference", state |-> "Unresolved",
     class |-> class, name_and_type |-> name_and_type]
ResolvedStatic(index, count) ==
    [tag |-> "MethodReference", state |-> "ResolvedStatic",
     index |-> index, parameter_count |-> count]
ResolvedVirtual(method_index, virtual_index, count) ==
    [tag |-> "MethodReference", state |-> "ResolvedVirtual",
     method_index |-> method_index, virtual_index |-> virtual_index,
     parameter_count |-> count]

\* The constant pool of Test as parsed: references to the methods v, greet
\* and s and the field s of A, to the method s of B and to the method run
\* of Test, and a method reference whose class index points at an entry of
\* the wrong tag.
TestPool ==
    << Utf8("A"),                  \*  1
       ClassEntry(1),              \*  2
       Utf8("s"),                  \*  3
       Utf8("v"),                  \*  4
       NameAndType(3, 3),          \*  5
       NameAndType(4, 4),          \*  6
       UnresolvedMethod(2, 6),     \*  7  A.v
       UnresolvedField(2, 5),      \*  8  A.s
       UnresolvedMethod(5, 5),     \*  9  class index names a NameAndType
       Utf8("B"),                  \* 10
       ClassEntry(10),             \* 11
       UnresolvedMethod(11, 5),    \* 12  B.s
       Utf8("greet"),              \* 13
       NameAndType(13, 13),        \* 14
       UnresolvedMethod(2, 14),    \* 15  A.greet
       UnresolvedMethod(2, 5),     \* 16  A.s
       Utf8("Test"),               \* 17
       ClassEntry(17),             \* 18
       Utf8("run"),                \* 19
       NameAndType(19, 19),        \* 20
       UnresolvedMethod(18, 20) >> \* 21  Test.run

Ok(value) == [ok |-> TRUE, value |-> value]
Err(kind, what) == [ok |-> FALSE, error |-> [kind |-> kind, what |-> what]]

\* ConstantPool::get.  index.0 - 1 is a u16 subtraction: index 0 panics in
\* a build with overflow checks and wraps to 65535 in one without, which is
\* beyond every pool of the model.
get(pool, index, checks) ==
    IF index = 0
    THEN IF checks THEN Err("panic", index) ELSE Err("MissingEntry", index)
    ELSE IF index \in 1..Len(pool) THEN Ok(pool[index])
    ELSE Err("MissingEntry", index)

get_utf8(pool, index, checks) ==
    LET value == get(pool, index, checks)
    IN  IF ~value.ok THEN value
        ELSE IF value.value.tag = "Utf8" THEN Ok(value.value.string)
        ELSE Err("NotAnUtf8String", index)

get_class(pool, index, checks) ==
    LET value == get(pool, index, checks)
    IN  IF ~value.ok THEN value
        ELSE IF value.value.tag = "Class" THEN Ok(value.value.name)
        ELSE Err("NotAClassReference", index)

get_name_and_type(pool, index, checks) ==
    LET value == get(pool, index, checks)
    IN  IF ~value.ok THEN value
        ELSE IF value.value.tag = "NameAndType"
        THEN Ok([name |-> value.value.name, ty |-> value.value.ty])
        ELSE Err("NotNameAndType", index)

get_method(pool, index, checks) ==
    LET value == get(pool, index, checks)
    IN  IF ~value.ok THEN value
        ELSE IF value.value.tag = "MethodReference" THEN value
        ELSE Err("MethodNotResolvable", index)

resolve_type(pool, index, checks) ==
    LET value == get(pool, index, checks)
    IN  IF ~value.ok THEN value
        ELSE IF value.value.tag = "Class"
        THEN get_utf8(pool, value.value.name, checks)
        ELSE Err("TypeNotResolvable", index)

\* update_resolved_field / _static_method / _virtual_method: the entry is
\* overwritten in place, whatever it holds.
update_resolved(pool, index, entry) == [pool EXCEPT ![index] = entry]

(***************************************************************************)
(* The resolve operations of Class (model/class.rs).  Each one is split at *)
(* its call of resolve_by_name: begin_resolve is the part before it,       *)
(* complete_resolve the part after it.                                     *)
(***************************************************************************)
FieldOps == {"resolve_instance_field", "resolve_static_field"}
MethodOps == {"resolve_static_method", "resolve_virtual_method_statically",
              "resolve_virtual_method"}
ResolveOps == FieldOps \cup MethodOps

\* name and class name of an unresolved field reference
field_symbol(pool, reference, checks) ==
    LET nat == get_name_and_type(pool, reference.name_and_type, checks)
    IN  IF ~nat.ok THEN nat ELSE
        LET name == get_utf8(pool, nat.value.name, checks)
        IN  IF ~name.ok THEN name ELSE
            LET class == get_class(pool, reference.class, checks)
            IN  IF ~class.ok THEN class ELSE
                LET callee == get_utf8(pool, class.value, checks)
                IN  IF ~callee.ok THEN callee
                    ELSE Ok([class_name |-> callee.value,
                             name |-> name.value])

\* name and class name of an unresolved method reference
method_symbol(pool, reference, checks) ==
    LET nat == get_name_and_type(pool, reference.name_and_type, checks)
    IN  IF ~nat.ok THEN nat ELSE
        LET callee == resolve_type(pool, reference.class, checks)
        IN  IF ~callee.ok THEN callee ELSE
            LET name == get_utf8(pool, nat.value.name, checks)
            IN  IF ~name.ok THEN name
                ELSE Ok([class_name |-> callee.value, name |-> name.value])

Return(result) == [return |-> TRUE, result |-> result]
Lookup(symbol) == [return |-> FALSE, symbol |-> symbol]

begin_resolve_field(pool, op, index, checks) ==
    With(get(pool, index, checks), LAMBDA entry :
        IF ~entry.ok THEN Return(entry)
        ELSE IF entry.value.tag # "FieldReference"
        THEN Return(Err("FieldNotResolvable", index))
        ELSE IF entry.value.state = "Resolved"
        THEN Return(Ok(IF op = "resolve_instance_field"
                       THEN [info |-> entry.value.info]
                       ELSE [class |-> entry.value.class,
                             info |-> entry.value.info]))
        ELSE With(field_symbol(pool, entry.value, checks), LAMBDA symbol :
                 IF ~symbol.ok THEN Return(symbol)
                 ELSE Lookup(symbol.value)))

begin_resolve_method(pool, op, index, checks) ==
    With(get_method(pool, index, checks), LAMBDA reference :
        IF ~reference.ok THEN Return(reference)
        ELSE IF /\ reference.value.state = "ResolvedStatic"
                /\ op \in {"resolve_static_method",
                           "resolve_virtual_method_statically"}
        THEN Return(Ok([index |-> reference.value.index,
                        parameter_count |->
                            reference.value.parameter_count]))
        ELSE IF /\ reference.value.state = "ResolvedVirtual"
                /\ op = "resolve_virtual_method"
        THEN Return(Ok([index |-> reference.value.virtual_index,
                        parameter_count |->
                            reference.value.parameter_count]))
        ELSE IF reference.value.state = "Unresolved"
        THEN With(method_symbol(pool, reference.value, checks),
                  LAMBDA symbol :
                      IF ~symbol.ok THEN Return(symbol)
                      ELSE Lookup(symbol.value))
        ELSE Return(Err(IF op = "resolve_virtual_method" THEN "NotVirtual"
                        ELSE "NotStatic", index)))

begin_resolve(pool, op, index, checks) ==
    IF op \in FieldOps THEN begin_resolve_field(pool, op, index, checks)
    ELSE begin_resolve_method(pool, op, index, checks)

\* Class::resolve_own_static_field: the class itself, then its super classes
RECURSIVE resolve_own_static_field(_, _, _)
resolve_own_static_field(classes_, class, name) ==
    IF name \in DOMAIN class.static_field_layout.fields
    THEN Ok([class |-> class.index,
             info |-> class.static_field_layout.fields[name]])
    ELSE IF class.super_class # None
    THEN resolve_own_static_field(classes_,
                                  classes_[class.super_class[1] + 1], name)
    ELSE Err("StaticFieldNotFound", name)

Kept(pool, result) == [pool |-> pool, result |-> result]

Found(entry, returned) == Ok([entry |-> entry, returned |-> returned])

\* The lookup of the member by name in the class resolve_by_name returned:
\* the entry to cache and the value to return, or the error.
lookup_member(lib, op, name, class_index) ==
    LET callee_class == lib.classes[class_index + 1]
    IN  CASE op = "resolve_instance_field" ->
               IF name \in DOMAIN callee_class.field_layout.fields
               THEN LET info == callee_class.field_layout.fields[name]
                    IN  Found(ResolvedField(info, callee_class.index),
                              [info |-> info])
               ELSE Err("UnknownField", name)
          [] op = "resolve_static_field" ->
               LET own == resolve_own_static_field(lib.classes,
                                                   callee_class, name)
               IN  IF own.ok
                   THEN Found(ResolvedField(own.value.info, own.value.class),
                              own.value)
                   ELSE own
          [] op = "resolve_static_method" ->
               IF name \in DOMAIN callee_class.static_methods
               THEN LET method == callee_class.static_methods[name]
                    IN  Found(ResolvedStatic(method.method_index,
                                             method.parameter_count),
                              [index |-> method.method_index,
                               parameter_count |-> method.parameter_count])
               ELSE Err("UnknownStatic", name)
          [] op = "resolve_virtual_method_statically" ->
               IF name \in DOMAIN callee_class.virtual_methods
               THEN LET method == callee_class.virtual_methods[name]
                    IN  Found(ResolvedVirtual(method.method_index,
                                              method.virtual_index,
                                              method.parameter_count),
                              [index |-> method.method_index,
                               parameter_count |-> method.parameter_count])
               ELSE Err("UnknownStatic", name)
          [] op = "resolve_virtual_method" ->
               IF name \in DOMAIN callee_class.virtual_methods
               THEN LET method == callee_class.virtual_methods[name]
                    IN  Found(ResolvedVirtual(method.method_index,
                                              method.virtual_index,
                                              method.parameter_count),
                              [index |-> method.virtual_index,
                               parameter_count |-> method.parameter_count])
               ELSE Err("UnknownVirtual", name)

\* complete_resolve with the cache written before the lookup result is
\* examined: a failed lookup leaves a name in the entry (mutant).
complete_resolve_writing_first(pool, lib, op, index, name, class_index) ==
    With(lookup_member(lib, op, name, class_index), LAMBDA member :
        IF member.ok
        THEN Kept(update_resolved(pool, index, member.value.entry),
                  Ok(member.value.returned))
        ELSE Kept(update_resolved(pool, index, Utf8(name)), member))

\* The part of a resolve operation after resolve_by_name returned the class
\* with index class_index: the member is looked up by name; an unknown name
\* returns the error (the `?`), a known one is cached in the entry.
complete_resolve(pool, lib, op, index, name, class_index) ==
    With(lookup_member(lib, op, name, class_index), LAMBDA member :
        IF member.ok
        THEN Kept(update_resolved(pool, index, member.value.entry),
                  Ok(member.value.returned))
        ELSE Kept(pool, member))

\* What happens when the class initialiser on top of the frames returns
\* class index `index` to the call waiting below it: a load goes on with the
\* construction of its class, a resolve operation completes, and the code of
\* an initialiser simply goes on.
RECURSIVE unwind(_, _, _, _, _, _)
unwind(pool, lib, fr, index, max_classes, max_frames) ==
    IF fr = <<>> \/ fr[Len(fr)].kind = "clinit"
    THEN [status |-> "done", pool |-> pool, lib |-> lib, frames |-> fr,
          completed |-> None]
    ELSE LET top == fr[Len(fr)]
             rest == SubSeq(fr, 1, Len(fr) - 1)
         IN  IF top.kind = "load"
             THEN With(finish_load(lib, rest, top.name, Some(index),
                                   max_classes, max_frames),
                       LAMBDA r :
                           IF r.status = "done"
                           THEN unwind(pool, r.lib, rest, r.index,
                                       max_classes, max_frames)
                           ELSE [status |-> r.status, pool |-> pool,
                                 lib |-> r.lib, frames |-> r.frames,
                                 completed |-> None])
             ELSE With(complete_resolve(pool, lib, top.op, top.index,
                                        top.name, index),
                       LAMBDA c :
                           [status |-> "done", pool |-> c.pool, lib |-> lib,
                            frames |-> rest,
                            completed |-> Some([op |-> top.op,
                                                index |-> top.index,
                                                result |-> c.result])])

(***************************************************************************)
(* The operand stack (model/stack.rs): one region of 32-bit slots shared   *)
(* by all frames, addressed from 0.  The region comes from                 *)
(* std::alloc::alloc and is not initialised.                               *)
(***************************************************************************)
\* a slot or byte that has never been written
Uninit == -1

\* what a read of memory that has never been written may deliver
JunkValues == {0, 1}

Junk(value, junk) == IF value = Uninit THEN junk ELSE value

\* StackFrame::push_value: the slots written for a value of the type;
\* Uninit stands for the todo!() of the types narrower than int
push_value_slots(ty) ==
    CASE ty = "Void" -> 0
      [] ty \in {"Integer", "Float", "Reference"} -> 1
      [] ty \in {"Long", "Double"} -> 2
      [] OTHER -> Uninit

\* a prepare that clears the slot below the parameters as well
prepare_from_below(memory, stack_pointer, parameters, locals) ==
    [frame_base |-> stack_pointer,
     stack_end |-> stack_pointer + locals,
     memory |->
        [a \in DOMAIN memory |->
            IF a \in stack_pointer..(stack_pointer + parameters - 1)
            THEN memory[a - parameters]
            ELSE IF a = stack_pointer - parameters - 1 THEN Uninit
            ELSE memory[a]]]

\* StackFrame::prepare(stack, parameters, locals): the frame starts at the
\* pointer it is given, the parameters are copied up from below it
prepare(memory, stack_pointer, parameters, locals) ==
    [frame_base |-> stack_pointer,
     stack_end |-> stack_pointer + locals,
     memory |->
        [a \in DOMAIN memory |->
            IF a \in stack_pointer..(stack_pointer + parameters - 1)
            THEN memory[a - parameters]
            ELSE memory[a]]]

\* StackFrame::push of several slots in order
RECURSIVE push_all(_, _, _)
push_all(memory, stack_end, values) ==
    IF values = <<>> THEN [memory |-> memory, stack_end |-> stack_end]
    ELSE push_all([memory EXCEPT ![stack_end] = Head(values)],
                  stack_end + 1, Tail(values))

(***************************************************************************)
(* Values and stack slots (model/value.rs, model/stack.rs).  A slot is a   *)
(* u32, written as its two 16-bit halves, high half first; a 64-bit        *)
(* pattern (JvmLong, JvmDouble, HeapIndex) is written as its four halves.  *)
(* A JvmInt is the integer it denotes; a JvmFloat is its IEEE bits, which  *)
(* is what the transmutes of from_float and as_float carry over.  The      *)
(* evaluation stack of a frame is the sequence of the slots between the    *)
(* end of its locals and stack_end, so stack_end is its length.            *)
(***************************************************************************)
HalfRange == 2^16

INT_MIN == -2147483647 - 1

INT_MAX == -(INT_MIN + 1)

\* StackValue::from_int: the two's complement bits of the i32
from_int(value) == <<(value \div HalfRange) % HalfRange, value % HalfRange>>

\* StackValue::as_int: the bits read as an i32
as_int(slot) ==
    IF slot[1] >= HalfRange \div 2
    THEN (slot[1] - HalfRange) * HalfRange + slot[2]
    ELSE slot[1] * HalfRange + slot[2]

\* StackValue::from_long and from_double: (bits >> 32, bits & 0xffffffff)
from_long(value) == <<<<value[1], value[2]>>, <<value[3], value[4]>>>>

\* StackValue::as_long and as_double: (high << 32) | low
as_long(slots) == slots[1] \o slots[2]

\* StackValue::from_reference: into_raw() as u32 keeps the low 32 bits
from_reference(value) == <<value[3], value[4]>>

\* StackValue::as_reference: the u32 widened to a HeapIndex, as
\* HeapIndex::from_u16 widens a u16
as_reference(slot) == <<0, 0, slot[1], slot[2]>>

\* StackFrame::push
push(slots, value) == Append(slots, value)

\* StackFrame::push_wide: the high word first
push_wide(slots, values) == push(push(slots, values[1]), values[2])

\* StackFrame::pop
pop(slots) == [value |-> slots[Len(slots)], slots |-> SubSeq(slots, 1, Len(slots) - 1)]

\* StackFrame::pop_wide: the top is the low word
pop_wide(slots) ==
    With(pop(slots), LAMBDA top :
    With(pop(top.slots), LAMBDA second :
        [value |-> <<second.value, top.value>>, slots |-> second.slots]))

\* StackFrame::push_value; the todo!() of the narrow types panics
push_value(slots, value, ty) ==
    CASE ty = "Void" -> [slots |-> slots, panic |-> FALSE]
      [] ty = "Integer" -> [slots |-> push(slots, from_int(value)), panic |-> FALSE]
      [] ty = "Long" -> [slots |-> push_wide(slots, from_long(value)), panic |-> FALSE]
      [] ty = "Float" -> [slots |-> push(slots, value), panic |-> FALSE]
      [] ty = "Double" -> [slots |-> push_wide(slots, from_long(value)), panic |-> FALSE]
      [] ty = "Reference" -> [slots |-> push(slots, from_reference(value)), panic |-> FALSE]
      [] OTHER -> [slots |-> slots, panic |-> TRUE]

\* StackFrame::pop_type
pop_type(slots, ty) ==
    CASE ty = "Void" -> [value |-> <<>>, slots |-> slots, panic |-> FALSE]
      [] ty = "Integer" ->
            With(pop(slots), LAMBDA p :
                [value |-> as_int(p.value), slots |-> p.slots, panic |-> FALSE])
      [] ty \in {"Long", "Double"} ->
            With(pop_wide(slots), LAMBDA p :
                [value |-> as_long(p.value), slots |-> p.slots, panic |-> FALSE])
      [] ty = "Float" ->
            With(pop(slots), LAMBDA p :
                [value |-> p.value, slots |-> p.slots, panic |-> FALSE])
      [] ty = "Reference" ->
            With(pop(slots), LAMBDA p :
                [value |-> as_reference(p.value), slots |-> p.slots, panic |-> FALSE])
      [] OTHER -> [value |-> <<>>, slots |-> slots, panic |-> TRUE]

\* the values of each type that the frames of the model work on: the
\* extremes and the neighbours of zero; floats and doubles are -1, -0, 0, 1
\* and a NaN
IntValues == {INT_MIN, -1, 0, 1, INT_MAX}

FloatValues == {<<49024, 0>>, <<32768, 0>>, <<0, 0>>, <<16256, 0>>, <<32704, 0>>}

LongValues ==
    {<<32768, 0, 0, 0>>, <<65535, 65535, 65535, 65535>>, <<0, 0, 0, 0>>,
     <<0, 0, 0, 1>>, <<0, 0, 65535, 65535>>, <<32767, 65535, 65535, 65535>>}

DoubleValues ==
    {<<49136, 0, 0, 0>>, <<32768, 0, 0, 0>>, <<0, 0, 0, 0>>,
     <<16368, 0, 0, 0>>, <<32760, 0, 0, 0>>}

\* heap indices: null, offsets into a heap below and above 4 GiB
ReferenceValues == {<<0, 0, 0, 0>>, <<0, 0, 0, 8>>, <<0, 1, 0, 8>>}

ValuesOf(ty) ==
    CASE ty = "Integer" -> IntValues
      [] ty = "Float" -> FloatValues
      [] ty = "Long" -> LongValues
      [] ty = "Double" -> DoubleValues
      [] ty = "Reference" -> ReferenceValues
      [] OTHER -> {<<>>}

(***************************************************************************)
(* The heap (model/heap.rs): bytes from std::alloc::alloc, not initialised *)
(***************************************************************************)
\* a u64 of 2^16 or more: it indexes no Vec of the model, and every such
\* value is kept as this one
BeyondTables == 65536

\* u64::to_be_bytes, byte k of 0..7, of a value below 2^16
be_byte(value, k) ==
    CASE k = 7 -> value % 256
      [] k = 6 -> (value \div 256) % 256
      [] OTHER -> 0

\* Heap::set_class_index: bytes 0..3 go to index+0..3, bytes 4..7 to
\* index+5..8
set_class_index(content, index, class_index) ==
    [a \in DOMAIN content |->
        IF a \in index..(index + 3) THEN be_byte(class_index, a - index)
        ELSE IF a \in (index + 5)..(index + 8)
        THEN be_byte(class_index, a - index - 1)
        ELSE content[a]]

\* Heap::get_class_index: u64::from_be_bytes of the bytes index+0..7
get_class_index(content, index, junk) ==
    LET byte(a) == IF a \in DOMAIN content THEN Junk(content[a], junk)
                   ELSE junk
    IN  IF \E k \in 0..5 : byte(index + k) # 0 THEN BeyondTables
        ELSE 256 * byte(index + 6) + byte(index + 7)

\* to_be_bytes of a value of the type: an int from its bits, the others
\* from the halves they are written as
to_be_bytes(ty, value) ==
    With(IF ty = "Integer" THEN from_int(value) ELSE value, LAMBDA halves :
        [k \in 1..(2 * Len(halves)) |->
            IF k % 2 = 1 THEN halves[(k + 1) \div 2] \div 256
            ELSE halves[k \div 2] % 256])

\* Fields::set_value at the position of the fields: set_int, set_float,
\* set_long, set_double and set_reference write the big-endian bytes from
\* the offset on; the todo!() of the narrow types panics
set_value(content, position, offset, ty, value) ==
    IF ty \in {"Integer", "Float", "Long", "Double", "Reference"}
    THEN With(to_be_bytes(ty, value), LAMBDA bytes :
             [content |->
                 [a \in DOMAIN content |->
                     IF a \in (position + offset)..(position + offset + Len(bytes) - 1)
                     THEN bytes[a - position - offset + 1]
                     ELSE content[a]],
              panic |-> FALSE])
    ELSE [content |-> content, panic |-> ty # "Void"]

\* Fields::init_from_layout_at: the fields that have a constant_value are
\* set to it, the others are not written
RECURSIVE init_from_layout_at(_, _, _, _)
init_from_layout_at(content, position, layout, descriptors) ==
    IF descriptors = <<>> THEN content
    ELSE init_from_layout_at(
             IF Head(descriptors).constant_value = None THEN content
             ELSE set_value(content, position,
                            layout.fields[Head(descriptors).name].offset,
                            Head(descriptors).ty,
                            Head(descriptors).constant_value[1]).content,
             position, layout, Tail(descriptors))

\* Heap::instantiate: the tag is written at the tail, the fields are
\* initialised at content.get_pointer().offset(8)
instantiate(content, heap_tail, class) ==
    [index |-> heap_tail,
     content |-> init_from_layout_at(
                     set_class_index(content, heap_tail, class.index), 8,
                     class.field_layout, class.field_descriptors),
     tail |-> heap_tail + 8 + class.field_layout.length]

\* from_be_bytes of the bytes of a value of the type
from_be_bytes(ty, bytes) ==
    With([k \in 1..(Len(bytes) \div 2) |-> bytes[2 * k - 1] * 256 + bytes[2 * k]],
         LAMBDA halves : IF ty = "Integer" THEN as_int(halves) ELSE halves)

\* Fields::get_value at the position of the fields: get_int and get_float
\* read 4 bytes from the offset on, get_long, get_double and get_reference 8
get_value(content, position, offset, ty, junk) ==
    from_be_bytes(ty, [k \in 1..(IF ty \in {"Integer", "Float"} THEN 4 ELSE 8) |->
                          Junk(content[position + offset + k - 1], junk)])

NULL_POINTER == 0

\* the class files of the classes that are instantiated: int fields with
\* and without a ConstantValue attribute
HeapClassFiles ==
    <<[name |-> "P", super_class |-> None, static_fields |-> <<>>,
       fields |-> <<[name |-> "a", ty |-> "Integer", constant_value |-> Some(7)]>>,
       static_methods |-> <<>>, methods |-> <<>>],
      [name |-> "Q", super_class |-> None, static_fields |-> <<>>,
       fields |-> <<[name |-> "a", ty |-> "Integer", constant_value |-> Some(7)],
                    [name |-> "b", ty |-> "Integer", constant_value |-> None]>>,
       static_methods |-> <<>>, methods |-> <<>>],
      [name |-> "R", super_class |-> None, static_fields |-> <<>>,
       fields |-> <<>>, static_methods |-> <<>>, methods |-> <<>>]>>

\* the classes Class::new makes of them, at the class indices 1, 2 and 3
HeapClasses ==
    {ClassNew(HeapClassFiles[k], k, None, <<>>).class : k \in 1..Len(HeapClassFiles)}

(***************************************************************************)
(* The method table with its call table (model/method.rs) and the native   *)
(* compiler (jit/mod.rs).  A table value is the record [call_table,        *)
(* methods]: call_table maps the slots 0..length-1 to pointers, methods is *)
(* the vector of entries [implementation, data]; method index k is         *)
(* methods[k + 1].  A pointer is a record [region, buffer].                *)
(***************************************************************************)
\* MethodTable::new(100) of main
CallTableLength == 100

\* a slot of the call table that was never written (NativeList::alloc)
UnwrittenSlot == [region |-> "unwritten", buffer |-> 0]

\* interpreter::interpreter_trampoline as u64
interpreter_trampoline == [region |-> "interpreter_trampoline", buffer |-> 0]

\* buf.ptr(start_offset): the entry of the code of an executable buffer
entry_pointer(buffer) == [region |-> "code", buffer |-> buffer]

\* MethodImplementation
Interpreted == [kind |-> "Interpreted", buffer |-> 0]

Native(buffer) == [kind |-> "Native", buffer |-> buffer]

\* MethodTable::new
MethodTableNew(length) ==
    [call_table |-> [i \in 0..(length - 1) |-> UnwrittenSlot],
     methods |-> <<>>]

\* a patch_call_table that writes the trampoline for every implementation
patch_call_table_trampoline(table, index, implementation) ==
    [table EXCEPT !.call_table[index] = interpreter_trampoline]

\* MethodTable::patch_call_table
patch_call_table(table, index, implementation) ==
    [table EXCEPT !.call_table[index] =
        IF implementation.kind = "Native"
        THEN entry_pointer(implementation.buffer)
        ELSE interpreter_trampoline]

\* MethodTable::method_count
method_count(table) == Len(table.methods)

\* MethodTable::get_data
get_data(table, method_index) == table.methods[method_index + 1].data

\* MethodTable::resolve
resolve(table, method_index) == table.call_table[method_index]

\* MethodTable::add_method: the table afterwards and the index returned
add_method(table, implementation, data) ==
    [table |->
        [patch_call_table(table, Len(table.methods), implementation)
            EXCEPT !.methods =
                Append(@, [implementation |-> implementation,
                           data |-> data])],
     index |-> Len(table.methods)]

\* an update_method that patches the slot of every method of the table
update_method_all_slots(table, index, implementation) ==
    [table |->
        [table EXCEPT
            !.call_table =
                [i \in DOMAIN @ |->
                    IF i < Len(table.methods)
                    THEN patch_call_table(table, i, implementation)
                             .call_table[i]
                    ELSE @[i]],
            !.methods =
                IF index < Len(table.methods)
                THEN [@ EXCEPT ![index + 1].implementation = implementation]
                ELSE @],
     panic |-> index >= Len(table.methods)]

\* an update_method that leaves the call table alone
update_method_entry_only(table, index, implementation) ==
    [table |->
        IF index < Len(table.methods)
        THEN [table EXCEPT
                 !.methods[index + 1].implementation = implementation]
        ELSE table,
     panic |-> index >= Len(table.methods)]

\* MethodTable::update_method: the slot is patched first; indexing the
\* vector panics for an index that is not below its length.
update_method(table, index, implementation) ==
    [table |->
        IF index < Len(table.methods)
        THEN [patch_call_table(table, index, implementation) EXCEPT
                 !.methods[index + 1].implementation = implementation]
        ELSE patch_call_table(table, index, implementation),
     panic |-> index >= Len(table.methods)]

\* the opcodes compile_method translates to a push of a constant, each of
\* one byte
PushOpcodes == {"ICONST_0", "ICONST_1", "LCONST_0", "FCONST_0", "DCONST_0"}

\* the loop of compile_method from code_index on: "Ok" at a return opcode,
\* "MissingReturn" at the end of the code, "todo" (a panic) at any other
\* opcode
RECURSIVE compile_from(_, _)
compile_from(code, code_index) ==
    IF code_index >= Len(code) THEN "MissingReturn"
    ELSE IF code[code_index + 1] \in PushOpcodes
    THEN compile_from(code, code_index + 1)
    ELSE IF code[code_index + 1] \in {"RETURN", "IRETURN"} THEN "Ok"
    ELSE "todo"

\* jit::compile_method: the outcome and, for Ok, the implementation made of
\* a new executable buffer.  The table is read and not written.
compile_method(table, method_index, buffer) ==
    [outcome |-> compile_from(get_data(table, method_index).code, 0),
     implementation |-> Native(buffer)]

\* the method data handed to add_method
TableCodes ==
    {<<"ICONST_1", "IRETURN">>, <<"ICONST_1">>, <<"NOP", "RETURN">>}

TableMethods ==
    {[name |-> "f", code |-> code, max_stack |-> 1, max_locals |-> 0,
      owning_class |-> 0, argument_count |-> 0,
      return_type |-> IF "IRETURN" \in {code[i] : i \in 1..Len(code)}
                      THEN "Integer" ELSE "Void"] : code \in TableCodes}

\* who calls call_method: main, and the invoke instructions of the
\* interpreter
Callers == {"main", "interpret"}

(***************************************************************************)
(* The interpreter loop (interpreter/mod.rs).  The code of a method is its *)
(* bytes; the opcodes have their values of the class file format.          *)
(***************************************************************************)
ICONST_M1 == 2
ICONST_0 == 3
ICONST_1 == 4
ICONST_2 == 5
ICONST_3 == 6
ICONST_4 == 7
ICONST_5 == 8
LCONST_0 == 9
LCONST_1 == 10
FCONST_0 == 11
FCONST_1 == 12
FCONST_2 == 13
DCONST_0 == 14
DCONST_1 == 15
BIPUSH == 16
SIPUSH == 17
LDC == 18
LDC_W == 19
LDC2_W == 20
ILOAD == 21
LLOAD == 22
FLOAD == 23
DLOAD == 24
ALOAD == 25
ILOAD_0 == 26
ILOAD_1 == 27
LLOAD_0 == 30
LLOAD_2 == 32
FLOAD_0 == 34
FLOAD_1 == 35
DLOAD_0 == 38
DLOAD_2 == 40
ISTORE == 54
LSTORE == 55
FSTORE == 56
DSTORE == 57
ASTORE == 58
IADD == 96
ISUB == 100
IMUL == 104
IDIV == 108
IREM == 112
INEG == 116
LCMP == 148
FCMPL == 149
FCMPG == 150
DCMPL == 151
DCMPG == 152
IFEQ == 153
IFNE == 154
IFLT == 155
IFGE == 156
IFGT == 157
IFLE == 158
IF_ICMPEQ == 159
IF_ICMPNE == 160
IF_ICMPLT == 161
IF_ICMPGE == 162
IF_ICMPGT == 163
IF_ICMPLE == 164
GOTO == 167
IRETURN == 172
RETURN == 177

JVM_GREATER == 1
JVM_EQUAL == 0
JVM_LESS == -1

\* i32::wrapping_add, computed without leaving the 32 bits
wrapping_add(a, b) ==
    IF b > 0 /\ a > INT_MAX - b THEN (a + INT_MIN) + (b + INT_MIN)
    ELSE IF b < 0 /\ a < INT_MIN - b THEN (a - INT_MIN) + (b - INT_MIN)
    ELSE a + b

\* i32::wrapping_sub
wrapping_sub(a, b) ==
    IF b = INT_MIN THEN wrapping_add(wrapping_add(a, INT_MAX), 1)
    ELSE wrapping_add(a, -b)

\* i32::wrapping_mul: the low 32 bits of the product, from the 16-bit halves
\* of the factors (x * y taken in two steps of 8 bits of y)
wrapping_mul(a, b) ==
    With(from_int(a), LAMBDA x :
    With(from_int(b), LAMBDA y :
    With(x[2] * (y[2] \div 256), LAMBDA upper :
    With((upper % 256) * 256 + x[2] * (y[2] % 256), LAMBDA lower :
        as_int(<<(x[1] * (y[2] % 256) + (x[1] * (y[2] \div 256) % 256) * 256
                    + x[2] * (y[1] % 256) + (x[2] * (y[1] \div 256) % 256) * 256
                    + upper \div 256 + lower \div HalfRange) % HalfRange,
                 lower % HalfRange>>)))))

\* the quotient and the remainder of the division of i32, which rounds to
\* zero, for b # 0 and (a, b) # (INT_MIN, -1)
truncated(a, b) ==
    IF b = INT_MIN
    THEN [quot |-> IF a = INT_MIN THEN 1 ELSE 0,
          rem |-> IF a = INT_MIN THEN 0 ELSE a]
    ELSE With(IF b < 0 THEN -b ELSE b, LAMBDA divisor :
         With(a < 0 /\ a % divisor # 0, LAMBDA inexact_negative :
         With(IF inexact_negative THEN (a \div divisor) + 1 ELSE a \div divisor, LAMBDA q :
             [quot |-> IF b < 0 THEN -q ELSE q,
              rem |-> IF inexact_negative THEN (a % divisor) - divisor
                      ELSE a % divisor])))

\* the arithmetic of the arms IADD .. INEG on i32: the value pushed, or the
\* panic of the operator.  wrapping_div panics on a zero divisor; % panics
\* on a zero divisor and on INT_MIN % -1; unary - panics on INT_MIN in a
\* build with overflow checks and wraps in one without.
int_arithmetic(opcode, op1, op2, checks) ==
    CASE opcode = IADD -> [panic |-> FALSE, value |-> wrapping_add(op1, op2)]
      [] opcode = ISUB -> [panic |-> FALSE, value |-> wrapping_sub(op1, op2)]
      [] opcode = IMUL -> [panic |-> FALSE, value |-> wrapping_mul(op1, op2)]
      [] opcode = IDIV ->
            IF op2 = 0 THEN [panic |-> TRUE, value |-> 0]
            ELSE IF op1 = INT_MIN /\ op2 = -1 THEN [panic |-> FALSE, value |-> INT_MIN]
            ELSE [panic |-> FALSE, value |-> truncated(op1, op2).quot]
      [] opcode = IREM ->
            IF op2 = 0 \/ (op1 = INT_MIN /\ op2 = -1) THEN [panic |-> TRUE, value |-> 0]
            ELSE [panic |-> FALSE, value |-> truncated(op1, op2).rem]
      [] opcode = INEG ->
            IF op1 = INT_MIN THEN [panic |-> checks, value |-> INT_MIN]
            ELSE [panic |-> FALSE, value |-> -op1]

\* a < b for sequences of halves of one length, the first half weighing most
LexLess(a, b) ==
    \E i \in 1..Len(a) : a[i] < b[i] /\ \A j \in 1..(i - 1) : a[j] = b[j]

\* op1 > op2 of i64, on the bits: the sign bit is worth the least
long_greater(op1, op2) ==
    LexLess([op2 EXCEPT ![1] = (@ + HalfRange \div 2) % HalfRange],
            [op1 EXCEPT ![1] = (@ + HalfRange \div 2) % HalfRange])

\* f32::is_nan and f64::is_nan on the bits: the magnitude is above that of
\* the infinity, whose first half is 0x7f80 for f32 and 0x7ff0 for f64
is_nan(bits) ==
    LexLess([i \in 1..Len(bits) |-> IF i = 1 THEN IF Len(bits) = 2 THEN 32640 ELSE 32752 ELSE 0],
            [bits EXCEPT ![1] = @ % (HalfRange \div 2)])

\* op1 > op2 of two floats or two doubles, neither of them a NaN
float_greater(op1, op2) ==
    With([op1 EXCEPT ![1] = @ % (HalfRange \div 2)], LAMBDA magnitude1 :
    With([op2 EXCEPT ![1] = @ % (HalfRange \div 2)], LAMBDA magnitude2 :
        CASE op1[1] < HalfRange \div 2 /\ op2[1] < HalfRange \div 2 ->
                LexLess(magnitude2, magnitude1)
          [] op1[1] >= HalfRange \div 2 /\ op2[1] >= HalfRange \div 2 ->
                LexLess(magnitude1, magnitude2)
          [] op1[1] < HalfRange \div 2 /\ op2[1] >= HalfRange \div 2 ->
                \E i \in 1..Len(op1) : magnitude1[i] # 0 \/ magnitude2[i] # 0
          [] OTHER -> FALSE))

\* op1 == op2 of two floats or two doubles, neither of them a NaN: the
\* same bits, or both a zero
float_equal(op1, op2) == ~float_greater(op1, op2) /\ ~float_greater(op2, op1)

\* the value the arms LCMP, FCMPG, FCMPL, DCMPG, DCMPL push
compare(opcode, op1, op2) ==
    CASE opcode = LCMP ->
            IF long_greater(op1, op2) THEN JVM_GREATER
            ELSE IF op1 = op2 THEN JVM_EQUAL ELSE JVM_LESS
      [] opcode \in {FCMPG, DCMPG} ->
            IF is_nan(op1) \/ is_nan(op2) THEN JVM_GREATER
            ELSE IF float_greater(op1, op2) THEN JVM_GREATER
            ELSE IF float_equal(op1, op2) THEN JVM_EQUAL ELSE JVM_LESS
      [] opcode = FCMPL ->
            IF is_nan(op1) \/ is_nan(op2) THEN JVM_LESS
            ELSE IF float_greater(op1, op2) THEN JVM_GREATER
            ELSE IF float_equal(op1, op2) THEN JVM_LESS ELSE JVM_EQUAL
      [] opcode = DCMPL ->
            IF is_nan(op1) \/ is_nan(op2) THEN JVM_LESS
            ELSE IF float_greater(op1, op2) THEN JVM_GREATER
            ELSE IF float_equal(op1, op2) THEN JVM_EQUAL ELSE JVM_LESS

\* the condition of the arms IFEQ .. IFLE (op2 is zero) and IF_ICMPEQ ..
\* IF_ICMPLE
branch_condition(opcode, op1, op2) ==
    CASE opcode \in {IFEQ, IF_ICMPEQ} -> op1 = op2
      [] opcode \in {IFNE, IF_ICMPNE} -> op1 # op2
      [] opcode \in {IFLT, IF_ICMPLT} -> op1 < op2
      [] opcode \in {IFGE, IF_ICMPGE} -> op1 >= op2
      [] opcode \in {IFGT, IF_ICMPGT} -> op1 > op2
      [] opcode \in {IFLE, IF_ICMPLE} -> op1 <= op2

\* offset: pc.wrapping_add(i16::from_be_bytes([byte1, byte2]) as usize); a
\* sum below zero wraps to a pc above every code, which INT_MAX stands for
offset(at, byte1, byte2) ==
    With(byte1 * 256 + byte2, LAMBDA unsigned :
    With(IF unsigned >= HalfRange \div 2 THEN unsigned - HalfRange ELSE unsigned, LAMBDA signed :
        IF at + signed >= 0 THEN at + signed ELSE INT_MAX))

\* the loop goes on at the pc with the evaluation stack
Continue(at, slots) == [kind |-> "continue", pc |-> at, slots |-> slots, value |-> <<>>]

\* break Ok(value)
Break(value, slots) == [kind |-> "Ok", pc |-> 0, slots |-> slots, value |-> value]

\* a panic of the arm: the arithmetic of Rust, or todo!()
Panicking(slots) == [kind |-> "panic", pc |-> 0, slots |-> slots, value |-> <<>>]

\* one iteration of the loop of interpret at a pc inside the code: the arm
\* of the opcode at the pc
\* the IEEE bits of the float constants 0.0, 1.0 and 2.0
float_constant(n) == <<IF n = 0 THEN 0 ELSE IF n = 1 THEN 16256 ELSE 16384, 0>>

\* the IEEE bits of the double constants 0.0 and 1.0
double_constant(n) == <<IF n = 0 THEN 0 ELSE 16368, 0, 0, 0>>

\* the two's complement bits of a long constant 0 or 1
long_constant(n) == <<0, 0, 0, n>>

\* i8::from_be_bytes([byte]) as i32
i8_from_be_bytes(byte) == IF byte >= 128 THEN byte - 256 ELSE byte

\* i16::from_be_bytes([byte1, byte2]) as i32
i16_from_be_bytes(byte1, byte2) ==
    IF byte1 >= 128 THEN byte1 * 256 + byte2 - 65536 ELSE byte1 * 256 + byte2

step(code, at, slots, frame_locals, checks) ==
    With(code[at + 1], LAMBDA opcode :
    CASE opcode \in {ICONST_M1, ICONST_0, ICONST_1, ICONST_2, ICONST_3, ICONST_4, ICONST_5} ->
            Continue(at + 1, push(slots, from_int(opcode - ICONST_0)))
      [] opcode \in {LCONST_0, LCONST_1} ->
            Continue(at + 1, push_wide(slots, from_long(long_constant(opcode - LCONST_0))))
      [] opcode \in {FCONST_0, FCONST_1, FCONST_2} ->
            Continue(at + 1, push(slots, float_constant(opcode - FCONST_0)))
      [] opcode \in {DCONST_0, DCONST_1} ->
            Continue(at + 1, push_wide(slots, from_long(double_constant(opcode - DCONST_0))))
      [] opcode = BIPUSH ->
            Continue(at + 2, push(slots, from_int(i8_from_be_bytes(code[at + 2]))))
      [] opcode = SIPUSH ->
            Continue(at + 3, push(slots, from_int(i16_from_be_bytes(code[at + 2], code[at + 3]))))
      [] opcode \in {ILOAD_0, FLOAD_0} ->
            Continue(at + 1, push(slots, frame_locals[1]))
      [] opcode \in {ILOAD_1, FLOAD_1} ->
            Continue(at + 1, push(slots, frame_locals[2]))
      [] opcode \in {LLOAD_0, DLOAD_0} ->
            Continue(at + 1, push_wide(slots, <<frame_locals[1], frame_locals[2]>>))
      [] opcode \in {LLOAD_2, DLOAD_2} ->
            Continue(at + 1, push_wide(slots, <<frame_locals[3], frame_locals[4]>>))
      [] opcode \in {ILOAD, FLOAD, ALOAD} ->
            Continue(at + 2, push(slots, frame_locals[code[at + 2] + 1]))
      [] opcode \in {LLOAD, DLOAD} ->
            Continue(at + 1,
                     push_wide(slots, <<frame_locals[code[at + 2] + 1],
                                        frame_locals[code[at + 2] + 2]>>))
      [] opcode \in {ISTORE, FSTORE, ASTORE} ->
            Continue(at + 2, pop(slots).slots)
      [] opcode \in {LSTORE, DSTORE} ->
            Continue(at + 2, pop(pop(slots).slots).slots)
      [] opcode \in {IADD, ISUB, IMUL, IDIV, IREM} ->
            With(pop(slots), LAMBDA second :
            With(pop(second.slots), LAMBDA first :
            With(int_arithmetic(opcode, as_int(first.value), as_int(second.value), checks),
                 LAMBDA done :
                IF done.panic THEN Panicking(first.slots)
                ELSE Continue(at + 1, push(first.slots, from_int(done.value))))))
      [] opcode = INEG ->
            With(pop(slots), LAMBDA first :
            With(int_arithmetic(opcode, as_int(first.value), 0, checks), LAMBDA done :
                IF done.panic THEN Panicking(first.slots)
                ELSE Continue(at + 1, push(first.slots, from_int(done.value)))))
      [] opcode \in {LCMP, DCMPG, DCMPL} ->
            With(pop_wide(slots), LAMBDA second :
            With(pop_wide(second.slots), LAMBDA first :
                Continue(at + 3,
                         push(first.slots,
                              from_int(compare(opcode, as_long(first.value),
                                               as_long(second.value)))))))
      [] opcode \in {FCMPG, FCMPL} ->
            With(pop(slots), LAMBDA second :
            With(pop(second.slots), LAMBDA first :
                Continue(at + 3,
                         push(first.slots,
                              from_int(compare(opcode, first.value, second.value))))))
      [] opcode \in {IFEQ, IFNE, IFLT, IFGE, IFGT, IFLE} ->
            With(pop(slots), LAMBDA first :
                Continue(IF branch_condition(opcode, as_int(first.value), 0)
                         THEN offset(at, code[at + 2], code[at + 3])
                         ELSE at + 2,
                         first.slots))
      [] opcode \in {IF_ICMPEQ, IF_ICMPNE, IF_ICMPLT, IF_ICMPGE, IF_ICMPGT, IF_ICMPLE} ->
            With(pop(slots), LAMBDA second :
            With(pop(second.slots), LAMBDA first :
                Continue(IF branch_condition(opcode, as_int(first.value),
                                             as_int(second.value))
                         THEN offset(at, code[at + 2], code[at + 3])
                         ELSE at + 3,
                         first.slots)))
      [] opcode = GOTO -> Continue(offset(at, code[at + 2], code[at + 3]), slots)
      [] opcode = IRETURN ->
            With(pop(slots), LAMBDA first : Break(as_int(first.value), first.slots))
      [] opcode = RETURN -> Break(<<>>, slots)
      [] OTHER -> Panicking(slots))

\* the locals after the instruction at `at`: a store pops its value into
\* the local its index byte names (a long or double into two locals)
locals_after(code, at, slots, frame_locals) ==
    With(code[at + 1], LAMBDA opcode :
    CASE opcode \in {ISTORE, FSTORE, ASTORE} ->
            [frame_locals EXCEPT ![code[at + 2] + 1] = pop(slots).value]
      [] opcode \in {LSTORE, DSTORE} ->
            With(pop(slots), LAMBDA top :
            With(pop(top.slots), LAMBDA second :
                [frame_locals EXCEPT ![code[at + 2] + 1] = second.value,
                                     ![code[at + 2] + 2] = top.value]))
      [] OTHER -> frame_locals)

\* the methods that are interpreted: static methods whose locals are their
\* parameters.  Every path through their code, by the lengths of the
\* instructions and the targets of the branches, ends in a return, but for
\* the last one, whose code ends without one.
InterpretedMethods ==
    {[code |-> <<ILOAD_0, ILOAD_1, opcode, IRETURN>>,
      parameters |-> <<"Integer", "Integer">>] :
        opcode \in {IADD, ISUB, IMUL, IDIV, IREM}}
    \cup {[code |-> <<ILOAD_0, INEG, IRETURN>>, parameters |-> <<"Integer">>]}
    \cup {[code |-> <<LLOAD_0, LLOAD_2, LCMP, IRETURN>>,
           parameters |-> <<"Long", "Long">>]}
    \cup {[code |-> <<FLOAD_0, FLOAD_1, opcode, IRETURN>>,
           parameters |-> <<"Float", "Float">>] : opcode \in {FCMPG, FCMPL}}
    \cup {[code |-> <<DLOAD_0, DLOAD_2, opcode, IRETURN>>,
           parameters |-> <<"Double", "Double">>] : opcode \in {DCMPG, DCMPL}}
    \cup {[code |-> <<ILOAD_0, opcode, 0, 5, ICONST_0, IRETURN, ICONST_1, IRETURN>>,
           parameters |-> <<"Integer">>] :
            opcode \in {IFEQ, IFNE, IFLT, IFGE, IFGT, IFLE}}
    \cup {[code |-> <<ILOAD_0, ILOAD_1, opcode, 0, 5, ICONST_0, IRETURN,
                      ICONST_1, IRETURN>>,
           parameters |-> <<"Integer", "Integer">>] :
            opcode \in {IF_ICMPEQ, IF_ICMPNE, IF_ICMPLT, IF_ICMPGE, IF_ICMPGT,
                        IF_ICMPLE}}
    \cup {[code |-> <<GOTO, 0, 5, ICONST_0, IRETURN, GOTO, 255, 254>>,
           parameters |-> <<>>],
          [code |-> <<RETURN>>, parameters |-> <<>>],
          [code |-> <<ICONST_1>>, parameters |-> <<>>]}
    \cup {[code |-> <<ILOAD, 0, ILOAD, 1, IADD, IRETURN>>,
           parameters |-> <<"Integer", "Integer">>],
          [code |-> <<FLOAD, 0, FLOAD, 1, FCMPG, IRETURN>>,
           parameters |-> <<"Float", "Float">>],
          [code |-> <<LLOAD, 0, LLOAD, 2, LCMP, IRETURN>>,
           parameters |-> <<"Long", "Long">>],
          [code |-> <<DLOAD, 0, DLOAD, 2, DCMPL, IRETURN>>,
           parameters |-> <<"Double", "Double">>],
          [code |-> <<ILOAD_0, ISTORE, 1, ILOAD, 1, IRETURN>>,
           parameters |-> <<"Integer", "Integer">>],
          [code |-> <<FLOAD_0, FSTORE, 1, ILOAD, 1, IRETURN>>,
           parameters |-> <<"Float", "Float">>],
          [code |-> <<LLOAD_0, LSTORE, 2, ILOAD, 3, IRETURN>>,
           parameters |-> <<"Long", "Long">>],
          [code |-> <<DLOAD_0, DSTORE, 2, ILOAD, 3, IRETURN>>,
           parameters |-> <<"Double", "Double">>]}

\* the argument lists of the parameter types
RECURSIVE ArgumentLists(_)
ArgumentLists(parameters) ==
    IF parameters = <<>> THEN {<<>>}
    ELSE {<<value>> \o rest : value \in ValuesOf(Head(parameters)),
                              rest \in ArgumentLists(Tail(parameters))}

\* the slots of the arguments as the caller has pushed them, which
\* StackFrame::prepare makes the first locals of the frame
RECURSIVE argument_slots(_, _)
argument_slots(parameters, arguments) ==
    IF parameters = <<>> THEN <<>>
    ELSE push_value(<<>>, Head(arguments), Head(parameters)).slots
             \o argument_slots(Tail(parameters), Tail(arguments))

(***************************************************************************)
(* State.                                                                  *)
(***************************************************************************)
VARIABLES
    super_layout,   \* field_layout of the super class of the newest class
    declared,       \* data.fields of the newest class
    field_layout,   \* field_layout of the newest class
    chain,          \* classes constructed so far in the chain
    total,          \* fields declared so far in the chain
    constant_pool,  \* ConstantPool::entries of Test
    classes,        \* ClassLibrary::classes
    name_mappings,  \* ClassLibrary::name_mappings
    methods,        \* MethodTable::methods (the data of each entry)
    frames,         \* calls waiting for a class initialiser, which is on top
    last,           \* the operation that returned last, and its result
    panicked,       \* the process has panicked
    overflow_checks,\* the build panics on integer overflow (debug profile)
    stack,          \* the slots of the operand stack region
    call_stack,     \* the StackFrame of each interpret_method that runs
    heap_content,   \* Heap::content, byte by byte
    tail,           \* Heap::tail
    objects,        \* heap index -> class index handed to instantiate
    last_invoke,    \* the invoke instruction executed last
    last_return,    \* the invocation that completed last
    mtable,         \* the MethodTable: call_table and methods
    pending,        \* compiled implementations not yet handed to the table
    buffers,        \* executable buffers created so far
    table_last,     \* the operation on the method table that ran last
    entered_trampoline, \* the call that entered the trampoline last
    updated,        \* methods whose latest update_method installed code
    operands,       \* the evaluation stack of the frame that is interpreted
    pushes,         \* the typed values pushed and not yet popped
    popped,         \* the pop that ran last: what went in, what came out
    method_code,    \* the code of the method that is interpreted
    pc,             \* the pc of the interpret loop
    interpreted,    \* how the frame ended, and what the caller received
    locals,         \* the locals of the frame that is interpreted
    executed,       \* the instruction executed last, the stack around it
    instances,      \* the instantiate calls: the heap before and after each
    subject,        \* the input a function of the program is applied to
    outcome         \* what the function returned for it

layoutVars == <<super_layout, declared, field_layout, chain, total>>

poolVars == <<constant_pool, classes, name_mappings, methods, frames, last,
              panicked>>

callVars == <<overflow_checks, stack, call_stack, heap_content, tail, objects,
              last_invoke, last_return>>

tableVars == <<mtable, pending, buffers, table_last, entered_trampoline,
               updated>>

frameVars == <<operands, pushes, popped, method_code, pc, interpreted, locals,
               executed>>

heapVars == <<instances>>

pureVars == <<subject, outcome>>

vars == <<layoutVars, poolVars, callVars, tableVars, frameVars, heapVars,
         pureVars>>

\* Field names matter only up to renaming: a class either declares a name the
\* chain already knows (shadowing it) or the first name of NameOrder that is
\* still unknown.
NameOrder == <<"a", "b", "c", "d">>

NextNames(known) ==
    LET unknown == {i \in 1..Len(NameOrder) : NameOrder[i] \notin known}
    IN  IF unknown = {} THEN {}
        ELSE {NameOrder[CHOOSE i \in unknown : \A j \in unknown : i <= j]}

\* The field lists of at most n fields a class file may declare on top of a
\* layout that knows the names `known`: names are distinct within a class.
RECURSIVE FieldLists(_, _, _)
FieldLists(known, taken, n) ==
    IF n = 0 THEN {<<>>}
    ELSE {<<>>} \cup
         UNION {{<<f>> \o rest :
                    rest \in FieldLists(known \cup {f.name},
                                        taken \cup {f.name}, n - 1)} :
                f \in {g \in FieldDescriptor :
                         /\ g.name \notin taken
                         /\ g.name \in known \cup NextNames(known)}}

InitLayout ==
    /\ super_layout = EmptyLayout
    /\ declared = <<>>
    /\ field_layout = EmptyLayout
    /\ chain = 0
    /\ total = 0

\* Class::new for the next class of the chain: the instance fields are laid
\* out on top of the super class's layout (the empty layout for the root).
NewClass(fs) ==
    /\ chain < MaxChain
    /\ total + Len(fs) <= MaxTotalFields
    /\ super_layout' = field_layout
    /\ declared' = fs
    /\ field_layout' = layout_fields(field_layout, fs)
    /\ chain' = chain + 1
    /\ total' = total + Len(fs)

NextLayout ==
    \E fs \in FieldLists(DOMAIN field_layout.fields, {},
                          MaxTotalFields - total) : NewClass(fs)

(***************************************************************************)
(* Resolution against the constant pool of Test.  main has loaded Object   *)
(* and Test; A and B are loaded by the first reference to them.  The code  *)
(* that runs at top level and inside a class initialiser is any sequence   *)
(* of resolve and get operations.                                          *)
(***************************************************************************)
Library ==
    [classes |-> classes, name_mappings |-> name_mappings,
     methods |-> methods]

\* main: resolve_by_name("classes/Object"), resolve_by_name("Test")
MainLibrary ==
    resolve_by_name(
        resolve_by_name(EmptyLibrary, <<>>, "Object",
                        MaxClasses, MaxFrames).lib,
        <<>>, "Test", MaxClasses, MaxFrames).lib

\* the indices an operation is called with: every kind of entry and an
\* index beyond the pool
PoolIndices == {1, 7, 8, 9, 12, 22}

NoOperation == [op |-> "none", index |-> 0, result |-> Ok([none |-> TRUE])]

InitPool ==
    /\ constant_pool = TestPool
    /\ classes = MainLibrary.classes
    /\ name_mappings = MainLibrary.name_mappings
    /\ methods = MainLibrary.methods
    /\ frames = <<>>
    /\ last = NoOperation
    /\ panicked = FALSE

NoInvoke ==
    [opcode |-> "none", index |-> 0, class_name |-> "", name |-> "",
     receiver_class |-> Uninit, entered |-> Uninit]

NoReturn == [method |-> Uninit, tos_before |-> 0, tos_after |-> 0]

\* No code has run: both memory regions are as allocated.  The pool
\* operations are followed in a build with overflow checks; only index 0
\* tells the profiles apart there, and no operation of the model names it.
InitIdle ==
    /\ overflow_checks = TRUE
    /\ stack = [a \in 0..(StackSlots - 1) |-> Uninit]
    /\ call_stack = <<>>
    /\ heap_content = [a \in 0..(HeapBytes - 1) |-> Uninit]
    /\ tail = 0
    /\ objects = <<>>
    /\ last_invoke = NoInvoke
    /\ last_return = NoReturn

\* no call_method has entered the trampoline yet
NoCall == [caller |-> "none", index |-> 0]

\* no operation on the method table has run yet
NoTableOperation ==
    [op |-> "none", caller |-> "none", index |-> 0,
     implementation |-> Interpreted, outcome |-> "none",
     target |-> UnwrittenSlot, panic |-> FALSE]

\* MethodTable::new(100) of main
InitTable ==
    /\ mtable = MethodTableNew(CallTableLength)
    /\ pending = {}
    /\ buffers = 0
    /\ table_last = NoTableOperation
    /\ entered_trampoline = NoCall
    /\ updated = {}

\* no frame is interpreted
NoPop == [ty |-> "none"]

NotInterpreted == [outcome |-> "none"]

NotExecuted == [pc |-> 0, opcode |-> 0]

InitFrame ==
    /\ operands = <<>>
    /\ pushes = <<>>
    /\ popped = NoPop
    /\ method_code = <<>>
    /\ pc = 0
    /\ interpreted = NotInterpreted
    /\ locals = <<>>
    /\ executed = NotExecuted
    /\ instances = <<>>
    /\ subject = None
    /\ outcome = None

Init == InitLayout /\ InitPool /\ InitIdle /\ InitTable /\ InitFrame

\* the operation returns to the code that called it
Returned(pool, lib, fr, completed) ==
    /\ constant_pool' = pool
    /\ classes' = lib.classes
    /\ name_mappings' = lib.name_mappings
    /\ methods' = lib.methods
    /\ frames' = fr
    /\ last' = IF completed = None THEN last ELSE completed[1]
    /\ UNCHANGED panicked

Panic ==
    /\ panicked' = TRUE
    /\ UNCHANGED <<constant_pool, classes, name_mappings, methods, frames,
                   last>>

\* ConstantPool::get
Get(index) ==
    /\ ~panicked
    /\ \E result \in {get(constant_pool, index, overflow_checks)} :
           IF ~result.ok /\ result.error.kind = "panic"
           THEN Panic
           ELSE Returned(constant_pool, Library, frames,
                         Some([op |-> "get", index |-> index,
                               result |-> result]))

\* One of the five resolve operations of Test, called with a pool index by
\* the code that runs.  It returns at once, or it loads the class it names
\* and is left waiting while a class initialiser runs.
Resolve(op, index) ==
    /\ ~panicked
    /\ \E b \in {begin_resolve(constant_pool, op, index, overflow_checks)} :
           IF b.return
           THEN IF ~b.result.ok /\ b.result.error.kind = "panic"
                THEN Panic
                ELSE Returned(constant_pool, Library, frames,
                              Some([op |-> op, index |-> index,
                                    result |-> b.result]))
           ELSE \E r \in {resolve_by_name(
                              Library,
                              Append(frames,
                                     [kind |-> "resolve", op |-> op,
                                      index |-> index,
                                      name |-> b.symbol.name]),
                              b.symbol.class_name, MaxClasses, MaxFrames)} :
                    CASE r.status = "bound" -> FALSE
                      [] r.status = "panic" -> Panic
                      [] r.status = "suspended" ->
                           Returned(constant_pool, r.lib, r.frames, None)
                      [] r.status = "done" ->
                           \E c \in {complete_resolve(
                                         constant_pool, r.lib, op, index,
                                         b.symbol.name, r.index)} :
                               Returned(c.pool, r.lib, frames,
                                        Some([op |-> op, index |-> index,
                                              result |-> c.result]))

\* The class initialiser on top of the frames returns: Class::bootstrap and
\* ClassLibrary::load return, and the calls waiting for the class go on.
ClinitReturn ==
    /\ ~panicked
    /\ frames # <<>>
    /\ \E u \in {unwind(constant_pool, Library,
                        SubSeq(frames, 1, Len(frames) - 1),
                        frames[Len(frames)].class, MaxClasses, MaxFrames)} :
           /\ u.status # "bound"
           /\ Returned(u.pool, u.lib, u.frames, u.completed)

NextPool ==
    \/ \E index \in PoolIndices : Get(index) /\ UNCHANGED <<layoutVars, callVars, tableVars, frameVars, heapVars, pureVars>>
    \/ \E op \in ResolveOps, index \in PoolIndices :
           Resolve(op, index) /\ UNCHANGED <<layoutVars, callVars, tableVars, frameVars, heapVars, pureVars>>
    \/ ClinitReturn /\ UNCHANGED <<layoutVars, callVars, tableVars, frameVars, heapVars, pureVars>>

SpecPool == Init /\ [][NextPool]_vars

SpecLayout == Init /\ [][NextLayout /\ UNCHANGED <<poolVars, callVars, tableVars, frameVars, heapVars, pureVars>>]_vars

(***************************************************************************)
(* Calls (interpreter/mod.rs).  Test, A and B are loaded and initialised,  *)
(* main runs.  The code of a method is any sequence of pushes, NEW,        *)
(* invokes and a return that a class file may hold: an invoke finds its    *)
(* arguments pushed, a receiver first, and a return finds its value.       *)
(* Only the code of Test resolves through TestPool, so only methods of     *)
(* Test execute NEW and invokes.                                           *)
(***************************************************************************)
\* the class initialisers on the frames run to their end, one after another
RECURSIVE run_initialisers(_, _, _)
run_initialisers(pool, lib, fr) ==
    IF fr = <<>> THEN lib
    ELSE With(unwind(pool, lib, SubSeq(fr, 1, Len(fr) - 1),
                     fr[Len(fr)].class, MaxClasses, MaxFrames),
              LAMBDA u : run_initialisers(u.pool, u.lib, u.frames))

\* the library after Test has made B, and with it A, load
LoadedLibrary ==
    With(resolve_by_name(MainLibrary, <<>>, "B", MaxClasses, MaxFrames),
         LAMBDA r : run_initialisers(TestPool, r.lib, r.frames))

\* interpret_method up to the call of interpret: the frame of the method
\* is prepared at the stack pointer it is called with
interpret_method(memory, method_table, method_index, stack_pointer) ==
    With(prepare(memory, stack_pointer,
                 method_table[method_index + 1].argument_count,
                 method_table[method_index + 1].max_locals),
         LAMBDA frame :
             [memory |-> frame.memory,
              activation |-> [method |-> method_index,
                              frame_base |-> frame.frame_base,
                              stack_end |-> frame.stack_end,
                              tos_before |-> stack_pointer]])

\* main.rs: call_method(main, stack) on the fresh stack
InitCall ==
    /\ InitLayout
    /\ constant_pool = TestPool
    /\ frames = <<>>
    /\ last = NoOperation
    /\ panicked = FALSE
    /\ overflow_checks \in BOOLEAN
    /\ \E lib \in {LoadedLibrary} :
           /\ classes = lib.classes
           /\ name_mappings = lib.name_mappings
           /\ methods = lib.methods
           /\ \E main \in {interpret_method(
                               [a \in 0..(StackSlots - 1) |-> Uninit],
                               lib.methods,
                               lib.classes[lib.name_mappings["Test"] + 1]
                                   .static_methods["main"].method_index,
                               0)} :
                  /\ stack = main.memory
                  /\ call_stack = <<main.activation>>
    /\ heap_content = [a \in 0..(HeapBytes - 1) |-> Uninit]
    /\ tail = 0
    /\ objects = <<>>
    /\ last_invoke = NoInvoke
    /\ last_return = NoReturn
    /\ InitTable
    /\ InitFrame

Top == call_stack[Len(call_stack)]

\* slots on the evaluation area of a frame
Operands(activation) ==
    activation.stack_end - activation.frame_base
        - methods[activation.method + 1].max_locals

\* the method that runs belongs to Test
InTest ==
    methods[Top.method + 1].owning_class = name_mappings["Test"]

\* int constants the code pushes
IntConstants == {1}

\* the NEW instructions of Test: the pool indices of the classes A and B
NewSites == {2, 11}

\* the invoke instructions of Test
CallSites ==
    {[opcode |-> "INVOKESTATIC", index |-> 16],
     [opcode |-> "INVOKESTATIC", index |-> 12],
     [opcode |-> "INVOKESTATIC", index |-> 21],
     [opcode |-> "INVOKEVIRTUAL", index |-> 15],
     [opcode |-> "INVOKEVIRTUAL", index |-> 7],
     [opcode |-> "INVOKESPECIAL", index |-> 15]}

\* the method a call site names, as its class file declares it
declared_method(site) ==
    LET symbol == method_symbol(TestPool, TestPool[site.index], TRUE).value
        file == ClassFiles[symbol.class_name]
        all == file.static_methods \o file.methods
        k == CHOOSE i \in 1..Len(all) : all[i].name = symbol.name
    IN  [class_name |-> symbol.class_name, desc |-> all[k]]

\* the slots the caller pushes for the call: the receiver and the arguments
RECURSIVE pushed_slots(_)
pushed_slots(parameters) ==
    IF parameters = <<>> THEN 0
    ELSE push_value_slots(Head(parameters)) + pushed_slots(Tail(parameters))

ArgSlots(desc) ==
    pushed_slots(desc.parameters) + (IF desc.is_virtual THEN 1 ELSE 0)

RECURSIVE IsSubclass(_, _)
IsSubclass(class_index, of) ==
    \/ class_index = of
    \/ /\ classes[class_index + 1].super_class # None
       /\ IsSubclass(classes[class_index + 1].super_class[1], of)

\* the resolve operation each invoke instruction calls
ResolveOpOf(opcode) ==
    CASE opcode = "INVOKESTATIC" -> "resolve_static_method"
      [] opcode = "INVOKESPECIAL" -> "resolve_virtual_method_statically"
      [] opcode = "INVOKEVIRTUAL" -> "resolve_virtual_method"

\* the resolve operation of an invoke, the class it names being loaded
resolve_loaded(pool, lib, op, index, checks) ==
    With(begin_resolve(pool, op, index, checks), LAMBDA b :
        IF b.return THEN Kept(pool, b.result)
        ELSE complete_resolve(
                 pool, lib, op, index, b.symbol.name,
                 resolve_by_name(lib, <<>>, b.symbol.class_name,
                                 MaxClasses, MaxFrames).index))

Enter(method_index) == [panic |-> FALSE, method_index |-> method_index]
Crash == [panic |-> TRUE, method_index |-> Uninit]

\* Instance::dispatch_virtual: the dispatch table of the class is indexed
dispatch_virtual(class, virtual_index) ==
    IF virtual_index < Len(class.dispatch_table)
    THEN Enter(class.dispatch_table[virtual_index + 1])
    ELSE Crash

\* INVOKEVIRTUAL after resolve_virtual_method: peek(paramter_count - 1)
\* reads the slot paramter_count below stack_end; the subtraction panics
\* for 0 in a build with overflow checks and wraps in one without, where
\* the slot read is the one at stack_end, which may lie behind the region.
\* Heap::resolve reads the class of what the slot holds.
virtual_target(memory, content, class_table, stack_end, virtual_index, paramter_count, checks, junk) ==
    IF paramter_count = 0 /\ checks THEN Crash
    ELSE With(get_class_index(
                  content,
                  IF stack_end - paramter_count \in DOMAIN memory
                  THEN Junk(memory[stack_end - paramter_count], junk)
                  ELSE junk,
                  junk),
              LAMBDA class_index :
                  IF class_index < Len(class_table)
                  THEN dispatch_virtual(class_table[class_index + 1],
                                        virtual_index)
                  ELSE Crash)

\* the method an invoke instruction enters after its resolve operation
\* returned result
invoke_target(opcode, result, junk) ==
    IF ~result.ok THEN Crash
    ELSE IF opcode # "INVOKEVIRTUAL" THEN Enter(result.value.index)
    ELSE virtual_target(stack, heap_content, classes, Top.stack_end,
                        result.value.index, result.value.parameter_count,
                        overflow_checks, junk)

UnchangedLibrary == UNCHANGED <<classes, name_mappings, methods, frames, last>>

\* an instruction that pushes an int constant
Push(value) ==
    /\ ~panicked
    /\ call_stack # <<>>
    /\ Operands(Top) < methods[Top.method + 1].max_stack
    /\ LET p == push_all(stack, Top.stack_end, <<value>>)
       IN  /\ stack' = p.memory
           /\ call_stack' = [call_stack EXCEPT ![Len(call_stack)].stack_end =
                                                   p.stack_end]
    /\ UnchangedLibrary
    /\ UNCHANGED <<constant_pool, panicked, overflow_checks, heap_content,
                   tail, objects, last_invoke, last_return>>

\* NEW: resolve_type, resolve_by_name, Heap::instantiate, push of the
\* reference
New(index) ==
    /\ ~panicked
    /\ call_stack # <<>>
    /\ InTest
    /\ Operands(Top) < methods[Top.method + 1].max_stack
    /\ Cardinality(DOMAIN objects) < MaxObjects
    /\ \E name \in {resolve_type(constant_pool, index, overflow_checks)} :
       /\ name.ok
       /\ \E class \in {classes[resolve_by_name(Library, <<>>, name.value,
                                                MaxClasses, MaxFrames).index
                                + 1]} :
          \E made \in {instantiate(heap_content, tail, class)} :
          \E p \in {push_all(stack, Top.stack_end, <<made.index>>)} :
              /\ made.tail <= HeapBytes
              /\ made.index + 8 < HeapBytes
              /\ heap_content' = made.content
              /\ tail' = made.tail
              /\ objects' = MapInsert(objects, made.index, class.index)
              /\ stack' = p.memory
              /\ call_stack' =
                     [call_stack EXCEPT ![Len(call_stack)].stack_end =
                                            p.stack_end]
    /\ UnchangedLibrary
    /\ UNCHANGED <<constant_pool, panicked, overflow_checks, last_invoke,
                   last_return>>

\* INVOKESTATIC, INVOKESPECIAL and INVOKEVIRTUAL up to the entry into the
\* method: the reference is resolved, a virtual call is dispatched on the
\* class read from the heap, and interpret_method prepares the frame at
\* the caller's stack_end.  An error of the resolve operation is returned
\* by interpret and unwrapped by interpret_method.
Invoke(site) ==
    /\ ~panicked
    /\ call_stack # <<>>
    /\ InTest
    /\ Len(call_stack) < MaxCallDepth
    /\ \E named \in {declared_method(site)} :
       /\ named.desc.is_virtual = (site.opcode # "INVOKESTATIC")
       /\ Operands(Top) >= ArgSlots(named.desc)
       /\ \E receiver \in {stack[Top.stack_end - ArgSlots(named.desc)]} :
          /\ named.desc.is_virtual =>
                 /\ receiver \in DOMAIN objects
                 /\ IsSubclass(objects[receiver],
                               name_mappings[named.class_name])
          /\ \E r \in {resolve_loaded(constant_pool, Library,
                                      ResolveOpOf(site.opcode), site.index,
                                      overflow_checks)},
                junk \in JunkValues :
             \E target \in {invoke_target(site.opcode, r.result, junk)} :
                 /\ constant_pool' = r.pool
                 /\ last_invoke' =
                        [opcode |-> site.opcode, index |-> site.index,
                         class_name |-> named.class_name,
                         name |-> named.desc.name,
                         receiver_class |->
                             IF named.desc.is_virtual
                             THEN objects[receiver] ELSE Uninit,
                         entered |-> target.method_index]
                 /\ IF target.panic
                    THEN /\ panicked' = TRUE
                         /\ UNCHANGED <<stack, call_stack>>
                    ELSE \E callee \in {interpret_method(
                                            stack, methods,
                                            target.method_index,
                                            Top.stack_end)} :
                             /\ callee.activation.stack_end
                                    + methods[target.method_index + 1]
                                          .max_stack
                                  <= StackSlots
                             /\ stack' = callee.memory
                             /\ call_stack' =
                                    Append(call_stack,
                                           callee.activation
                                           @@ [pushed |-> ArgSlots(named.desc),
                                               caller_slots |->
                                                   [a \in 0..(Top.stack_end - 1)
                                                       |-> stack[a]]])
                             /\ UNCHANGED panicked
    /\ UnchangedLibrary
    /\ UNCHANGED <<overflow_checks, heap_content, tail, objects, last_return>>

\* xRETURN / RETURN of the method on top, the rest of interpret_method and
\* the rest of the invoke instruction of the caller: the value is popped
\* from the frame of the method, StackFrame::clear hands back the frame
\* base, which is dropped, and the caller does push_value of the value at
\* its stack_end.  When main returns the program ends.
MethodReturn ==
    /\ ~panicked
    /\ call_stack # <<>>
    /\ \E n \in {push_value_slots(methods[Top.method + 1].return_type)},
          rest \in {SubSeq(call_stack, 1, Len(call_stack) - 1)} :
       /\ n # Uninit
       /\ Operands(Top) >= n
       /\ IF rest = <<>>
          THEN /\ call_stack' = rest
               /\ UNCHANGED <<stack, last_return>>
          ELSE \E p \in {push_all(stack, rest[Len(rest)].stack_end,
                                  [k \in 1..n |->
                                      stack[Top.stack_end - n + k - 1]])} :
                   /\ stack' = p.memory
                   /\ call_stack' = [rest EXCEPT ![Len(rest)].stack_end =
                                                     p.stack_end]
                   /\ last_return' = [method |-> Top.method,
                                      tos_before |-> Top.tos_before,
                                      tos_after |-> p.stack_end]
    /\ UnchangedLibrary
    /\ UNCHANGED <<constant_pool, panicked, overflow_checks, heap_content,
                   tail, objects, last_invoke>>

NextCall ==
    \/ \E value \in IntConstants : Push(value) /\ UNCHANGED <<layoutVars, tableVars, frameVars, heapVars, pureVars>>
    \/ \E index \in NewSites : New(index) /\ UNCHANGED <<layoutVars, tableVars, frameVars, heapVars, pureVars>>
    \/ \E site \in CallSites : Invoke(site) /\ UNCHANGED <<layoutVars, tableVars, frameVars, heapVars, pureVars>>
    \/ MethodReturn /\ UNCHANGED <<layoutVars, tableVars, frameVars, heapVars, pureVars>>

SpecCall == InitCall /\ [][NextCall]_vars

(***************************************************************************)
(* The method table specification: methods are added, compiled, updated    *)
(* and called in any order.  The call table has room for every method      *)
(* added (MaxMethods is below CallTableLength).                            *)
(***************************************************************************)
\* the implementations a caller can hand to the table: Interpreted, or one
\* that compile_method returned and that was not handed over yet
Implementations == {Interpreted} \cup pending

\* methods.add_method(implementation, data)
AddMethod(implementation, data) ==
    /\ ~table_last.panic
    /\ method_count(mtable) < MaxMethods
    /\ \E added \in {add_method(mtable, implementation, data)} :
          /\ mtable' = added.table
          /\ table_last' = [op |-> "add_method", caller |-> "none",
                            index |-> added.index,
                            implementation |-> implementation,
                            outcome |-> "Ok", target |-> UnwrittenSlot,
                            panic |-> FALSE]
    /\ pending' = pending \ {implementation}
    /\ UNCHANGED <<buffers, entered_trampoline, updated>>

\* methods.update_method(index, implementation), for an index handed out by
\* add_method or the one after the last
UpdateMethod(index, implementation) ==
    /\ ~table_last.panic
    /\ index \in 0..method_count(mtable)
    /\ \E done \in {update_method(mtable, index, implementation)} :
          /\ mtable' = done.table
          /\ table_last' = [op |-> "update_method", caller |-> "none",
                            index |-> index,
                            implementation |-> implementation,
                            outcome |-> IF done.panic THEN "panic" ELSE "Ok",
                            target |-> UnwrittenSlot, panic |-> done.panic]
          /\ updated' = IF ~done.panic /\ implementation.kind = "Native"
                        THEN updated \cup {index}
                        ELSE updated \ {index}
    /\ pending' = pending \ {implementation}
    /\ UNCHANGED <<buffers, entered_trampoline>>

\* jit::compile_method(index, classes, methods): Ok hands the caller the
\* implementation; the unimplemented opcode panics.
CompileMethod(index) ==
    /\ ~table_last.panic
    /\ index \in 0..(method_count(mtable) - 1)
    /\ buffers < MaxBuffers
    /\ \E compiled \in {compile_method(mtable, index, buffers + 1)} :
          /\ table_last' = [op |-> "compile_method", caller |-> "none",
                            index |-> index,
                            implementation |-> compiled.implementation,
                            outcome |-> compiled.outcome,
                            target |-> UnwrittenSlot,
                            panic |-> compiled.outcome = "todo"]
          /\ pending' = IF compiled.outcome = "Ok"
                        THEN pending \cup {compiled.implementation}
                        ELSE pending
          /\ buffers' = IF compiled.outcome = "Ok" THEN buffers + 1
                        ELSE buffers
    /\ UNCHANGED <<mtable, entered_trampoline, updated>>

\* interpreter::call_method(index, ...) up to the call instruction: the
\* target is read from the call table and entered.
CallMethod(caller, index) ==
    /\ ~table_last.panic
    /\ index \in 0..(method_count(mtable) - 1)
    /\ \E target \in {resolve(mtable, index)} :
          /\ table_last' = [op |-> "call_method", caller |-> caller,
                            index |-> index, implementation |-> Interpreted,
                            outcome |-> "Ok", target |-> target,
                            panic |-> FALSE]
          /\ entered_trampoline' =
                 IF target = interpreter_trampoline
                 THEN [caller |-> caller, index |-> index]
                 ELSE entered_trampoline
    /\ UNCHANGED <<mtable, pending, buffers, updated>>

NextTable ==
    \/ \E implementation \in Implementations, data \in TableMethods :
           AddMethod(implementation, data)
               /\ UNCHANGED <<layoutVars, poolVars, callVars, frameVars, heapVars, pureVars>>
    \/ \E index \in 0..MaxMethods, implementation \in Implementations :
           UpdateMethod(index, implementation)
               /\ UNCHANGED <<layoutVars, poolVars, callVars, frameVars, heapVars, pureVars>>
    \/ \E index \in 0..(MaxMethods - 1) :
           CompileMethod(index) /\ UNCHANGED <<layoutVars, poolVars, callVars, frameVars, heapVars, pureVars>>
    \/ \E caller \in Callers, index \in 0..(MaxMethods - 1) :
           CallMethod(caller, index)
               /\ UNCHANGED <<layoutVars, poolVars, callVars, frameVars, heapVars, pureVars>>

SpecTable == Init /\ [][NextTable]_vars

(***************************************************************************)
(* The evaluation stack of one frame: the instructions of a method push    *)
(* typed values and pop them again, last in first out, with the type they  *)
(* were pushed with.                                                       *)
(***************************************************************************)
PushValue(ty, value) ==
    /\ interpreted = NotInterpreted
    /\ Len(pushes) < MaxPushes
    /\ \E done \in {push_value(operands, value, ty)} :
           IF done.panic
           THEN /\ interpreted' = [outcome |-> "panic", ty |-> ty]
                /\ UNCHANGED <<operands, pushes, popped>>
           ELSE /\ operands' = done.slots
                /\ pushes' = Append(pushes, [ty |-> ty, value |-> value,
                                             stack_end |-> Len(operands)])
                /\ popped' = NoPop
                /\ UNCHANGED interpreted
    /\ UNCHANGED <<method_code, pc, locals, executed>>

PopValue ==
    /\ interpreted = NotInterpreted
    /\ pushes # <<>>
    /\ \E top \in {pushes[Len(pushes)]} :
       \E done \in {pop_type(operands, top.ty)} :
           /\ operands' = done.slots
           /\ pushes' = SubSeq(pushes, 1, Len(pushes) - 1)
           /\ popped' = [ty |-> top.ty, pushed |-> top.value,
                         value |-> done.value,
                         stack_end |-> Len(done.slots),
                         before_push |-> top.stack_end]
    /\ UNCHANGED <<method_code, pc, interpreted, locals, executed>>

NextStack ==
    \/ \E ty \in JvmTypes \ {"Void"} : \E value \in ValuesOf(ty) :
           PushValue(ty, value)
               /\ UNCHANGED <<layoutVars, poolVars, callVars, tableVars, heapVars, pureVars>>
    \/ PopValue /\ UNCHANGED <<layoutVars, poolVars, callVars, tableVars, heapVars, pureVars>>

SpecStack == Init /\ [][NextStack]_vars

(***************************************************************************)
(* interpret_method on one frame: the frame is prepared with the arguments *)
(* as its locals, interpret runs its loop from pc 0, and interpret_method  *)
(* unwraps what interpret returns before it returns to its caller.         *)
(***************************************************************************)
InitInterpret ==
    /\ InitLayout
    /\ InitPool
    /\ InitTable
    /\ overflow_checks \in BOOLEAN
    /\ stack = [a \in 0..(StackSlots - 1) |-> Uninit]
    /\ call_stack = <<>>
    /\ heap_content = [a \in 0..(HeapBytes - 1) |-> Uninit]
    /\ tail = 0
    /\ objects = <<>>
    /\ last_invoke = NoInvoke
    /\ last_return = NoReturn
    /\ \E method \in InterpretedMethods :
       \E arguments \in ArgumentLists(method.parameters) :
           /\ method_code = method.code
           /\ locals = argument_slots(method.parameters, arguments)
    /\ operands = <<>>
    /\ pushes = <<>>
    /\ popped = NoPop
    /\ pc = 0
    /\ interpreted = NotInterpreted
    /\ executed = NotExecuted
    /\ instances = <<>>
    /\ subject = None
    /\ outcome = None

\* an iteration of the loop after which the loop goes on
Execute ==
    /\ interpreted = NotInterpreted
    /\ pc < Len(method_code)
    /\ \E done \in {step(method_code, pc, operands, locals, overflow_checks)} :
           /\ done.kind = "continue"
           /\ pc' = done.pc
           /\ operands' = done.slots
           /\ executed' = [pc |-> pc, opcode |-> method_code[pc + 1],
                           before |-> operands, after |-> done.slots,
                           next_pc |-> done.pc]
    /\ locals' = locals_after(method_code, pc, operands, locals)
    /\ UNCHANGED <<pushes, popped, method_code, interpreted>>

\* the loop ends: with MissingReturn at a pc outside the code, with the
\* value of a return instruction, or with the panic of an arm.
\* interpret_method unwraps the Result, which panics on an Err, so its
\* caller receives a value or nothing at all.
Leave ==
    /\ interpreted = NotInterpreted
    /\ IF pc >= Len(method_code)
       THEN /\ interpreted' = [outcome |-> "MissingReturn", value |-> <<>>,
                               caller |-> "panic"]
            /\ UNCHANGED <<operands, executed>>
       ELSE \E done \in {step(method_code, pc, operands, locals, overflow_checks)} :
                /\ done.kind # "continue"
                /\ interpreted' = [outcome |-> done.kind, value |-> done.value,
                                   caller |-> IF done.kind = "Ok" THEN "value"
                                              ELSE "panic"]
                /\ operands' = done.slots
                /\ executed' = [pc |-> pc, opcode |-> method_code[pc + 1],
                                before |-> operands, after |-> done.slots,
                                next_pc |-> pc]
    /\ UNCHANGED <<pushes, popped, method_code, pc, locals>>

NextInterpret ==
    \/ Execute /\ UNCHANGED <<layoutVars, poolVars, callVars, tableVars, heapVars, pureVars>>
    \/ Leave /\ UNCHANGED <<layoutVars, poolVars, callVars, tableVars, heapVars, pureVars>>

SpecInterpret == InitInterpret /\ [][NextInterpret]_vars

(***************************************************************************)
(* The heap on its own: objects of the classes of HeapClasses are          *)
(* instantiated on the fresh heap, and their fields are set through the   *)
(* instance that Heap::resolve gives for their index.                      *)
(***************************************************************************)
Instantiate(class) ==
    \E made \in {instantiate(heap_content, tail, class)} :
        /\ made.tail <= HeapBytes
        /\ made.index + 8 < HeapBytes
        /\ heap_content' = made.content
        /\ tail' = made.tail
        /\ objects' = MapInsert(objects, made.index, class.index)
        /\ instances' = Append(instances,
                               [index |-> made.index, class |-> class,
                                before |-> heap_content,
                                content |-> made.content])
        /\ UNCHANGED <<overflow_checks, stack, call_stack, last_invoke,
                       last_return>>

\* Heap::resolve(index).set_field(info, value) for a field of the class the
\* object was instantiated with
SetField(i, name, value) ==
    /\ i \in 1..Len(instances)
    /\ name \in DOMAIN instances[i].class.field_layout.fields
    /\ \E info \in {instances[i].class.field_layout.fields[name]} :
           heap_content' = set_value(heap_content, instances[i].index + 8,
                                     info.offset, info.ty, value).content
    /\ UNCHANGED <<overflow_checks, stack, call_stack, tail, objects,
                   last_invoke, last_return, instances>>

NextHeap ==
    \/ \E class \in HeapClasses :
           Instantiate(class)
               /\ UNCHANGED <<layoutVars, poolVars, tableVars, frameVars, pureVars>>
    \/ \E i \in 1..Len(instances) : \E name \in {"a", "b"} : \E value \in IntValues :
           SetField(i, name, value)
               /\ UNCHANGED <<layoutVars, poolVars, tableVars, frameVars, pureVars>>

SpecHeap == Init /\ [][NextHeap]_vars




(***************************************************************************)
(* Claims about layout_fields, stated of the newest class of the chain:    *)
(* super_layout and declared are the arguments of the call, field_layout   *)
(* its result.                                                             *)
(***************************************************************************)
RECURSIVE SumOver(_, _)
SumOver(f, S) ==
    IF S = {} THEN 0
    ELSE LET x == CHOOSE y \in S : TRUE IN f[x] + SumOver(f, S \ {x})

\* bytes taken by the fields of a mapping
FieldBytes(layout) ==
    SumOver([n \in DOMAIN layout.fields |-> size(layout.fields[n].ty)],
            DOMAIN layout.fields)

\* bytes recorded as free spaces
SpaceBytes(layout) ==
    SumOver([i \in DOMAIN layout.spaces |-> layout.spaces[i].length],
            DOMAIN layout.spaces)

\* C5: every field of the super class's layout has the same (offset, type)
\* in the layout layout_fields returns for the sub class.
C5_ParentFieldsKept ==
    chain >= 1 =>
        \A n \in DOMAIN super_layout.fields :
            /\ n \in DOMAIN field_layout.fields
            /\ field_layout.fields[n] = super_layout.fields[n]

\* C6: every declared field name is present in the mapping layout_fields
\* returns.
C6_EveryFieldPlaced ==
    chain >= 1 =>
        \A k \in 1..Len(declared) :
            declared[k].name \in DOMAIN field_layout.fields

\* C7: the length of a layout is the sum of the sizes of its mapped fields
\* plus the sum of the lengths of its free spaces.
C7_LengthIsFieldsPlusSpaces ==
    field_layout.length = FieldBytes(field_layout) + SpaceBytes(field_layout)

\* The scenario of C8: the root class declares long a and byte b, its sub
\* class declares int c and short d.
C8_Scenario ==
    /\ chain = 2
    /\ DOMAIN super_layout.fields = {"a", "b"}
    /\ super_layout.fields["a"].ty = "Long"
    /\ super_layout.fields["b"].ty = "Byte"
    /\ Len(declared) = 2
    /\ {declared[1], declared[2]} =
          {[name |-> "c", ty |-> "Integer"], [name |-> "d", ty |-> "Short"]}

C9_NaturalAlignment ==
    \A n \in DOMAIN field_layout.fields :
        field_layout.fields[n].offset % alignment(field_layout.fields[n].ty) = 0

(***************************************************************************)
(* Claims about the resolution cache, checked in SpecPool.                 *)
(***************************************************************************)
IsResolved(entry) ==
    /\ entry.tag \in {"FieldReference", "MethodReference"}
    /\ entry.state # "Unresolved"

\* a resolve operation on index i is waiting for a class initialiser
InFlight(i) ==
    \E k \in 1..Len(frames) :
        frames[k].kind = "resolve" /\ frames[k].index = i

\* C2: an entry in resolved form stays as it is in every step: it never
\* reverts to unresolved and its referent is never written again.
C2_ResolvedEntryNeverChanges ==
    [][\A i \in 1..Len(constant_pool) :
          IsResolved(constant_pool[i]) =>
              constant_pool'[i] = constant_pool[i]]_vars

\* C2 for sequential use: an entry in resolved form stays as it is unless a
\* resolve operation on it that was called while it was unresolved is still
\* waiting for the class it loads.
C2_ResolvedEntryKeptBySequentialUse ==
    [][\A i \in 1..Len(constant_pool) :
          (IsResolved(constant_pool[i]) /\ ~InFlight(i)) =>
              constant_pool'[i] = constant_pool[i]]_vars

\* C3: when a method operation has just succeeded on an index, the same
\* operation called again on that index returns at once, and returns the
\* same index and parameter count.
C3_RepeatedResolveReturnsTheSame ==
    (last.op \in MethodOps /\ last.result.ok) =>
        LET again == begin_resolve(constant_pool, last.op, last.index,
                                   overflow_checks)
        IN  again.return /\ again.result = last.result

\* C4: every step after which the operation that returned last is a failed
\* one leaves the whole constant pool as it was.
C4_FailureLeavesPoolUnchanged ==
    [][(~last'.result.ok) => constant_pool' = constant_pool]_vars

\* C4 witness: a resolve operation has loaded the class it names and failed
\* on the member name, and the entry it was called with is unresolved.
C4_Witness ==
    /\ last.op \in ResolveOps
    /\ ~last.result.ok
    /\ last.result.error.kind \in {"UnknownStatic", "UnknownVirtual",
                                   "UnknownField", "StaticFieldNotFound"}
    /\ ~IsResolved(constant_pool[last.index])
    /\ \E i \in 1..Len(constant_pool) : IsResolved(constant_pool[i])

(***************************************************************************)
(* Claims about calls.                                                     *)
(***************************************************************************)
\* stack slots of a value of a type: 0 for void, 2 for long and double,
\* 1 otherwise
slots(ty) ==
    CASE ty = "Void" -> 0
      [] ty \in {"Long", "Double"} -> 2
      [] OTHER -> 1

\* C1: when an invocation by INVOKESTATIC, INVOKESPECIAL or INVOKEVIRTUAL
\* has completed, the caller's top-of-stack pointer equals its value just
\* before the invocation minus the method's argument_count plus
\* slots(return_type).
C1_CallerStackAfterInvocation ==
    last_return.method # Uninit =>
        last_return.tos_after =
            last_return.tos_before
                - methods[last_return.method + 1].argument_count
                + slots(methods[last_return.method + 1].return_type)

\* C10: INVOKEVIRTUAL naming a method of A on a receiver whose runtime class
\* overrides it enters the receiver's implementation: the method index that
\* the dispatch table of the receiver's class holds at the virtual index of
\* the named method (for a receiver of class B and A.greet, B's greet).
C10_VirtualDispatchSelectsReceiverMethod ==
    last_invoke.opcode = "INVOKEVIRTUAL" =>
        LET named == classes[name_mappings[last_invoke.class_name] + 1]
            virtual_index ==
                named.virtual_methods[last_invoke.name].virtual_index
            receiver == classes[last_invoke.receiver_class + 1]
        IN  receiver.dispatch_table[virtual_index + 1]
                    # named.dispatch_table[virtual_index + 1]
                => last_invoke.entered
                       = receiver.dispatch_table[virtual_index + 1]

(***************************************************************************)
(* Claims about class construction.                                        *)
(***************************************************************************)
\* the names of the methods with code that the class file of a class
\* declares as virtual
DeclaredVirtualNames(class) ==
    {ClassFiles[class.name].methods[i].name :
        i \in {j \in 1..Len(ClassFiles[class.name].methods) :
                  ClassFiles[class.name].methods[j].has_code}}

\* the classes of the library that have a parent
Subclasses == {i \in 1..Len(classes) : classes[i].super_class # None}

\* C11: for every class C with parent P, C's dispatch table is at least as
\* long as P's, every virtual method name known to P has the same virtual
\* index in C, every slot below the length of P's table that C does not
\* override holds the same method index as in P, and the methods new in C
\* occupy slots at or after the length of P's table.
C11_DispatchTableExtendsParent ==
    \A i \in Subclasses :
        LET C == classes[i]
            P == classes[C.super_class[1] + 1]
        IN  /\ Len(C.dispatch_table) >= Len(P.dispatch_table)
            /\ \A n \in DOMAIN P.virtual_methods :
                  /\ n \in DOMAIN C.virtual_methods
                  /\ C.virtual_methods[n].virtual_index
                         = P.virtual_methods[n].virtual_index
            /\ \A k \in 1..Len(P.dispatch_table) :
                  (\A n \in DeclaredVirtualNames(C) \cap DOMAIN P.virtual_methods :
                        P.virtual_methods[n].virtual_index # k - 1)
                      => C.dispatch_table[k] = P.dispatch_table[k]
            /\ \A n \in DeclaredVirtualNames(C) \ DOMAIN P.virtual_methods :
                  C.virtual_methods[n].virtual_index >= Len(P.dispatch_table)

\* C11 witness: the library holds a class that overrides a method of its
\* parent and inherits another, and a class that adds methods to those of
\* its parent.
C11_Witness ==
    /\ \E i \in Subclasses :
          LET C == classes[i]
              P == classes[C.super_class[1] + 1]
          IN  /\ DeclaredVirtualNames(C) \cap DOMAIN P.virtual_methods # {}
              /\ \E k \in 1..Len(P.dispatch_table) :
                    C.dispatch_table[k] # P.dispatch_table[k]
              /\ \E k \in 1..Len(P.dispatch_table) :
                    C.dispatch_table[k] = P.dispatch_table[k]
    /\ \E i \in Subclasses :
          LET C == classes[i]
              P == classes[C.super_class[1] + 1]
          IN  /\ DeclaredVirtualNames(C) \ DOMAIN P.virtual_methods # {}
              /\ Len(P.dispatch_table) > 0

(***************************************************************************)
(* Claims about the method table.                                          *)
(***************************************************************************)
\* the method indices handed out so far
MethodIndices == 0..(method_count(mtable) - 1)

\* C12: in every reachable state of the method table, for every index i
\* below method_count, call_table[i] is the interpreter trampoline if and
\* only if the implementation of entry i is Interpreted, and otherwise it is
\* the entry pointer of the compiled code of entry i.
C12_CallTableMatchesImplementation ==
    \A i \in MethodIndices :
        /\ mtable.call_table[i] = interpreter_trampoline
               <=> mtable.methods[i + 1].implementation = Interpreted
        /\ mtable.methods[i + 1].implementation # Interpreted
               => mtable.call_table[i]
                      = entry_pointer(
                            mtable.methods[i + 1].implementation.buffer)

\* C12 witness: the table holds an interpreted method and a method that
\* update_method gave compiled code, after the interpreted one.
C12_Witness ==
    \E i, j \in MethodIndices :
        /\ i < j
        /\ mtable.methods[i + 1].implementation = Interpreted
        /\ mtable.methods[j + 1].implementation.kind = "Native"
        /\ j \in updated

\* C13: every step in which compile_method for method m completes with Ok
\* ends with call_table[m] pointing to the entry of the code compiled, and
\* leaves the MethodData of m as it was.
C13_CompileInstallsEntry ==
    [][(table_last'.op = "compile_method" /\ table_last'.outcome = "Ok")
          => /\ mtable'.call_table[table_last'.index]
                    = entry_pointer(table_last'.implementation.buffer)
             /\ get_data(mtable', table_last'.index)
                    = get_data(mtable, table_last'.index)]_vars

\* C14: a step of update_method(i, impl) changes only call_table[i] and the
\* implementation of entry i: the data of entry i, every other entry, every
\* other slot of the call table and the number of entries (and with it the
\* method every index handed out denotes) stay as they were; a step of
\* add_method returns the number of entries there were before it.
C14_UpdateFrameAndAddIndex ==
    [][/\ table_last'.op = "update_method"
           => /\ Len(mtable'.methods) = Len(mtable.methods)
              /\ \A k \in DOMAIN mtable.call_table :
                    k # table_last'.index
                        => mtable'.call_table[k] = mtable.call_table[k]
              /\ \A k \in MethodIndices :
                    /\ get_data(mtable', k) = get_data(mtable, k)
                    /\ k # table_last'.index
                           => mtable'.methods[k + 1] = mtable.methods[k + 1]
       /\ table_last'.op = "add_method"
           => table_last'.index = method_count(mtable)]_vars

\* C14 witness: update_method has just given compiled code to a method of a
\* table that holds another method, and add_method has handed out index 1.
C14_Witness ==
    /\ table_last.op = "update_method"
    /\ ~table_last.panic
    /\ table_last.implementation.kind = "Native"
    /\ method_count(mtable) = 2
    /\ mtable.call_table[table_last.index]
           = entry_pointer(table_last.implementation.buffer)

\* C15: every invocation enters the pointer the call table holds for the
\* method at the time of the call: an invocation of a method whose latest
\* update_method installed compiled code enters the entry of that code and
\* not the trampoline, whoever calls and whatever it called before.
C15_CallEntersCurrentSlot ==
    table_last.op = "call_method" =>
        /\ table_last.target = mtable.call_table[table_last.index]
        /\ table_last.index \in updated
               => table_last.target
                      = entry_pointer(mtable.methods[table_last.index + 1]
                                          .implementation.buffer)

\* C15 witness: a caller that entered the trampoline for a method before
\* update_method installed compiled code for it has called it again, and
\* entered the code.
C15_Witness ==
    /\ table_last.op = "call_method"
    /\ table_last.index \in updated
    /\ entered_trampoline
           = [caller |-> table_last.caller, index |-> table_last.index]
    /\ table_last.target.region = "code"

(***************************************************************************)
(* Claims about class loading.                                             *)
(***************************************************************************)
\* the classes whose <clinit> is executing
Initialising ==
    {frames[k].class : k \in {j \in 1..Len(frames) : frames[j].kind = "clinit"}}

\* C16: while the <clinit> of a class is executing, the class is reachable
\* neither through the name map of the library nor through its class
\* vector.
C16_ClassHiddenDuringClinit ==
    \A index \in Initialising :
        /\ index >= Len(classes)
        /\ \A name \in DOMAIN name_mappings : name_mappings[name] # index

\* C17: a class is created once: under any sequence of resolve_by_name and
\* load calls, nested ones included, the library never holds two classes of
\* the same name, and the index a name maps to never changes once it is
\* assigned.
C17_ClassCreatedOnce ==
    [][/\ \A i, j \in 1..Len(classes') :
             classes'[i].name = classes'[j].name => i = j
       /\ \A name \in DOMAIN name_mappings :
             /\ name \in DOMAIN name_mappings'
             /\ name_mappings'[name] = name_mappings[name]]_vars

\* C18: every class C with a supertype P is constructed after P was appended
\* (the index of P is below that of C) and after the <clinit> of P has
\* returned: P is not a class whose <clinit> is still executing when the
\* step that constructed C is over.
C18_SuperInitialisedBeforeConstruction ==
    [][\A i \in (Len(classes) + 1)..Len(classes') :
          classes'[i].super_class # None
              => /\ classes'[i].super_class[1] < classes'[i].index
                 /\ classes'[i].super_class[1] \notin Initialising']_vars

(***************************************************************************)
(* Claims about stack frames.                                              *)
(***************************************************************************)
\* C19: the frame StackFrame::prepare(stack, argc, max_locals) opens has its
\* base at stack - argc, and its evaluation area (the position of the first
\* push) starts at frame_base + max_locals.  Every frame on the call stack
\* was opened by prepare at the stack pointer tos_before; stack_end has
\* moved up from the start of the evaluation area by what was pushed since.
C19_FrameBaseBelowArguments ==
    \A k \in 1..Len(call_stack) :
        /\ call_stack[k].frame_base
               = call_stack[k].tos_before
                     - methods[call_stack[k].method + 1].argument_count
        /\ call_stack[k].stack_end
               >= call_stack[k].frame_base
                      + methods[call_stack[k].method + 1].max_locals

\* C20: the locals 0..argc-1 of every frame hold the arguments the caller
\* pushed, in push order, and every local argc..max_locals-1 holds zero,
\* whatever the stack region held before.  (No instruction of the model
\* stores to a local, so the locals of a frame are as they were at entry.)
C20_LocalsAreArgumentsThenZero ==
    \A k \in 1..Len(call_stack) :
        LET frame == call_stack[k]
            data == methods[frame.method + 1]
        IN  /\ \A i \in 0..(data.argument_count - 1) :
                  stack[frame.frame_base + i]
                      = stack[frame.tos_before - data.argument_count + i]
            /\ \A i \in data.argument_count..(data.max_locals - 1) :
                  stack[frame.frame_base + i] = 0

(***************************************************************************)
(* The evaluation stack (model/stack.rs)                                   *)
(***************************************************************************)
\* C21: a value pushed with its width and popped with the same width comes
\* back unchanged, and the top-of-stack pointer is where it was before the
\* push.
C21_PushPopRoundTrip ==
    popped.ty # "none" =>
        /\ popped.value = popped.pushed
        /\ popped.stack_end = popped.before_push

\* a reference above 4 GiB has been pushed and popped
C21_Witness ==
    /\ popped.ty = "Reference"
    /\ popped.pushed[2] # 0

\* C21 for the reference type alone
C21_ReferenceRoundTrip ==
    popped.ty = "Reference" => popped.value = popped.pushed

\* the primitive types and the stack pointer are as C21 says
C21_PrimitiveRoundTrip ==
    popped.ty \in {"Integer", "Float", "Long", "Double"} =>
        /\ popped.value = popped.pushed
        /\ popped.stack_end = popped.before_push


(***************************************************************************)
(* The interpreter loop (interpreter/mod.rs)                               *)
(***************************************************************************)
BranchOpcodes ==
    {IFEQ, IFNE, IFLT, IFGE, IFGT, IFLE, IF_ICMPEQ, IF_ICMPNE, IF_ICMPLT,
     IF_ICMPGE, IF_ICMPGT, IF_ICMPLE, GOTO}

\* the branch offset of the instruction at p: signed, 16 bits, big-endian
BranchOffset(code, p) ==
    IF code[p + 2] * 256 + code[p + 3] >= 32768
    THEN code[p + 2] * 256 + code[p + 3] - 65536
    ELSE code[p + 2] * 256 + code[p + 3]

\* the loads and stores that are followed by the index of a local
IndexedOpcodes ==
    {ILOAD, LLOAD, FLOAD, DLOAD, ALOAD, ISTORE, LSTORE, FSTORE, DSTORE, ASTORE}

\* the pcs that can follow the instruction at p, by the length of the
\* instruction and the target of the branch
StandardSuccessors(code, p) ==
    CASE code[p + 1] \in {IRETURN, RETURN} -> {}
      [] code[p + 1] = GOTO -> {p + BranchOffset(code, p)}
      [] code[p + 1] \in BranchOpcodes \ {GOTO} -> {p + 3, p + BranchOffset(code, p)}
      [] code[p + 1] \in IndexedOpcodes -> {p + 2}
      [] OTHER -> {p + 1}

\* the pcs reached from the pcs of `reached` in at most n instructions
RECURSIVE StandardReach(_, _, _)
StandardReach(code, reached, n) ==
    IF n = 0 THEN reached
    ELSE StandardReach(code,
                       reached \cup UNION {StandardSuccessors(code, p) :
                                             p \in {q \in reached : q \in 0..(Len(code) - 1)}},
                       n - 1)

\* every path through the code ends in a return instruction
EndsInReturn(code) ==
    \A p \in StandardReach(code, {0}, Len(code)) : p \in 0..(Len(code) - 1)

\* C22: a method whose code ends in a return on every path is never
\* interpreted up to a pc outside its code, so it never yields
\* MissingReturn.
C22_NoMissingReturn ==
    EndsInReturn(method_code) => interpreted.outcome # "MissingReturn"

\* the operand k places below the top of the evaluation stack, as an int
IntOperand(evaluation, k) == as_int(evaluation[Len(evaluation) - k])

\* the long or double whose low word is k places below the top
WideOperand(evaluation, k) ==
    evaluation[Len(evaluation) - k - 1] \o evaluation[Len(evaluation) - k]

\* the branch executed last was taken
BranchTaken ==
    CASE executed.opcode = GOTO -> TRUE
      [] executed.opcode \in {IFEQ, IFNE, IFLT, IFGE, IFGT, IFLE} ->
            branch_condition(executed.opcode, IntOperand(executed.before, 0), 0)
      [] OTHER ->
            branch_condition(executed.opcode, IntOperand(executed.before, 1),
                             IntOperand(executed.before, 0))

\* C23: after a branch instruction at p the pc is p plus the signed offset
\* when the branch is taken, and p + 3 when a conditional branch is not.
C23_BranchTargets ==
    executed.opcode \in BranchOpcodes =>
        executed.next_pc = IF BranchTaken
                           THEN executed.pc + BranchOffset(method_code, executed.pc)
                           ELSE executed.pc + 3

\* C23 for the branches that are taken, and for the untaken IF_ICMPxx
C23_TakenAndCompareBranches ==
    /\ executed.opcode \in BranchOpcodes /\ BranchTaken =>
           executed.next_pc = executed.pc + BranchOffset(method_code, executed.pc)
    /\ executed.opcode \in BranchOpcodes \ {IFEQ, IFNE, IFLT, IFGE, IFGT, IFLE}
         /\ ~BranchTaken =>
           executed.next_pc = executed.pc + 3

\* a taken branch backwards, and an untaken IF_ICMPxx
C23_Witness ==
    /\ executed.opcode = GOTO
    /\ executed.next_pc < executed.pc

CompareOpcodes == {LCMP, FCMPG, FCMPL, DCMPG, DCMPL}

\* the operands of the comparison executed last: op1 lies below op2
CompareOperands ==
    IF executed.opcode \in {FCMPG, FCMPL}
    THEN [op1 |-> executed.before[Len(executed.before) - 1],
          op2 |-> executed.before[Len(executed.before)]]
    ELSE [op1 |-> WideOperand(executed.before, 2),
          op2 |-> WideOperand(executed.before, 0)]

\* what the comparison of op1 with op2 is to push
Compared(opcode, op1, op2) ==
    IF opcode = LCMP
    THEN IF long_greater(op1, op2) THEN 1 ELSE IF op1 = op2 THEN 0 ELSE -1
    ELSE IF is_nan(op1) \/ is_nan(op2)
         THEN IF opcode \in {FCMPG, DCMPG} THEN 1 ELSE -1
         ELSE IF float_greater(op1, op2) THEN 1
         ELSE IF float_greater(op2, op1) THEN -1 ELSE 0

\* C24: a comparison pops op2 and op1 and pushes 1, 0 or -1 as op1 is
\* greater than, equal to or less than op2; with a NaN operand FCMPG and
\* DCMPG push 1, FCMPL and DCMPL push -1.
C24_ComparisonResult ==
    executed.opcode \in CompareOpcodes =>
        /\ Len(executed.after) = Len(executed.before) + 1
               - (IF executed.opcode \in {FCMPG, FCMPL} THEN 2 ELSE 4)
        /\ IntOperand(executed.after, 0) =
               Compared(executed.opcode, CompareOperands.op1, CompareOperands.op2)

\* C24 for the comparisons other than FCMPL
C24_OtherComparisons ==
    executed.opcode \in CompareOpcodes \ {FCMPL} =>
        IntOperand(executed.after, 0) =
            Compared(executed.opcode, CompareOperands.op1, CompareOperands.op2)

\* FCMPL has compared two equal floats
C24_Witness ==
    /\ executed.opcode = FCMPL
    /\ CompareOperands.op1 = CompareOperands.op2
    /\ ~is_nan(CompareOperands.op1)

ArithmeticOpcodes == {IADD, ISUB, IMUL, IDIV, IREM, INEG}

\* the operands of the arithmetic instruction executed last
ArithmeticOperands ==
    IF executed.opcode = INEG
    THEN [op1 |-> IntOperand(executed.before, 0), op2 |-> 1]
    ELSE [op1 |-> IntOperand(executed.before, 1),
          op2 |-> IntOperand(executed.before, 0)]

\* C25: an integer arithmetic instruction whose divisor is not zero never
\* aborts and pushes the wrapped result: INT_MIN / -1 = INT_MIN,
\* INT_MIN % -1 = 0 and -INT_MIN = INT_MIN.
C25_ArithmeticWraps ==
    (/\ executed.opcode \in ArithmeticOpcodes
     /\ executed.opcode \in {IDIV, IREM} => ArithmeticOperands.op2 # 0) =>
        /\ interpreted.outcome # "panic"
        /\ (executed.opcode = IDIV /\ ArithmeticOperands.op1 = INT_MIN
              /\ ArithmeticOperands.op2 = -1) =>
               IntOperand(executed.after, 0) = INT_MIN
        /\ (executed.opcode = IREM /\ ArithmeticOperands.op1 = INT_MIN
              /\ ArithmeticOperands.op2 = -1) =>
               IntOperand(executed.after, 0) = 0
        /\ (executed.opcode = INEG /\ ArithmeticOperands.op1 = INT_MIN) =>
               IntOperand(executed.after, 0) = INT_MIN

\* C25 for IADD, ISUB, IMUL and IDIV: no abort, and INT_MIN / -1 = INT_MIN
C25_AddSubMulDivWrap ==
    (/\ executed.opcode \in {IADD, ISUB, IMUL, IDIV}
     /\ executed.opcode = IDIV => ArithmeticOperands.op2 # 0) =>
        /\ interpreted.outcome # "panic"
        /\ (executed.opcode = IDIV /\ ArithmeticOperands.op1 = INT_MIN
              /\ ArithmeticOperands.op2 = -1) =>
               IntOperand(executed.after, 0) = INT_MIN

\* IREM has met INT_MIN % -1
C25_Witness ==
    /\ executed.opcode = IREM
    /\ ArithmeticOperands.op1 = INT_MIN
    /\ ArithmeticOperands.op2 = -1

\* the variants of ExecutionError
ExecutionErrors ==
    {"MissingReturn", "MethodError", "TypeError", "ConstantPoolError", "FieldError"}

\* C26: an integer division or remainder by zero ends the frame with an
\* execution error, and in no other way.
C26_DivisionByZeroIsError ==
    (/\ executed.opcode \in {IDIV, IREM}
     /\ ArithmeticOperands.op2 = 0
     /\ interpreted # NotInterpreted) =>
        interpreted.outcome \in ExecutionErrors

\* C27: when a frame ends with an execution error, the caller that invoked
\* it receives that error as its own outcome.
C27_ErrorReachesCaller ==
    interpreted.outcome \in ExecutionErrors =>
        interpreted.caller = interpreted.outcome


(***************************************************************************)
(* The heap (model/heap.rs)                                                *)
(***************************************************************************)
\* C28: the class read back through resolve(instantiate(C)) is the class
\* index of C, whatever the heap held before.
C28_ClassTagRoundTrip ==
    \A i \in 1..Len(instances) : \A junk \in JunkValues :
        get_class_index(instances[i].content, instances[i].index, junk)
            = instances[i].class.index

\* the bytes of the object of the k-th instantiate
InstanceBytes(k) ==
    instances[k].index..(instances[k].index + 8
                           + instances[k].class.field_layout.length - 1)

\* C29: after instantiate(C) every field of the new instance reads as its
\* constant_value, or as zero if it has none, and the bytes of the objects
\* allocated before are what they were.
C29_FieldsInitialisedOthersKept ==
    \A i \in 1..Len(instances) :
        /\ \A k \in 1..Len(instances[i].class.field_descriptors) :
           \A junk \in JunkValues :
               With(instances[i].class.field_descriptors[k], LAMBDA field :
                   get_value(instances[i].content, instances[i].index + 8,
                             instances[i].class.field_layout.fields[field.name].offset,
                             field.ty, junk)
                       = IF field.constant_value = None THEN 0
                         ELSE field.constant_value[1])
        /\ \A j \in 1..(i - 1) : \A a \in InstanceBytes(j) :
               instances[i].content[a] = instances[i].before[a]

\* C30: no heap index that instantiate returns is the null reference.
C30_NullIsNeverAllocated ==
    \A i \in 1..Len(instances) : instances[i].index # NULL_POINTER

(***************************************************************************)
(* MethodDescriptor::parameter_count (model/method.rs), applied to the     *)
(* descriptors of methods as they are parsed parameter by parameter.       *)
(***************************************************************************)
MaxParameters == 2

ParameterTypes == JvmTypes \ {"Void"}

\* the state of every part of the program the function does not touch
InitRest ==
    /\ InitLayout
    /\ InitPool
    /\ InitIdle
    /\ InitTable
    /\ operands = <<>>
    /\ pushes = <<>>
    /\ popped = NoPop
    /\ method_code = <<>>
    /\ pc = 0
    /\ interpreted = NotInterpreted
    /\ locals = <<>>
    /\ executed = NotExecuted
    /\ instances = <<>>

Unchanged == UNCHANGED <<layoutVars, poolVars, callVars, tableVars, frameVars, heapVars>>

InitDescriptor ==
    /\ InitRest
    /\ \E is_virtual \in BOOLEAN :
           subject = [parameters |-> <<>>, return_type |-> "Void",
                      is_virtual |-> is_virtual]
    /\ outcome = None

\* the descriptor has one more parameter
AddParameter(ty) ==
    /\ Len(subject.parameters) < MaxParameters
    /\ subject' = [subject EXCEPT !.parameters = Append(@, ty)]
    /\ outcome' = None

\* MethodData::from_bytecode_descriptor reads argument_count off the
\* descriptor
CountParameters ==
    /\ outcome = None
    /\ outcome' = Some(parameter_count(subject))
    /\ UNCHANGED subject

NextDescriptor ==
    \/ \E ty \in ParameterTypes : AddParameter(ty) /\ Unchanged
    \/ CountParameters /\ Unchanged

SpecDescriptor == InitDescriptor /\ [][NextDescriptor]_vars

\* the 32-bit stack slots a caller pushes for the parameters
RECURSIVE SumSlots(_)
SumSlots(parameters) ==
    IF parameters = <<>> THEN 0
    ELSE slots(Head(parameters)) + SumSlots(Tail(parameters))

\* C31: for every method descriptor, argument_count is the number of 32-bit
\* slots the caller pushes: 2 for each long or double parameter, 1 for each
\* parameter of any other type, and 1 more for `this` of a non-static method
C31_ArgumentCountIsSlotCount ==
    outcome # None =>
        outcome[1] = SumSlots(subject.parameters)
                     + (IF subject.is_virtual THEN 1 ELSE 0)

\* the same for descriptors whose parameters are int, float, long or double
C31_WordSizedParameters ==
    (/\ outcome # None
     /\ \A i \in 1..Len(subject.parameters) :
            subject.parameters[i] \in {"Integer", "Float", "Long", "Double"})
    => outcome[1] = SumSlots(subject.parameters)
                    + (IF subject.is_virtual THEN 1 ELSE 0)

(***************************************************************************)
(* The accessors of ConstantPool (model/constant_pool.rs), called on the   *)
(* pool of Test with every index from 0 to one beyond the pool, in a build *)
(* with and in a build without overflow checks.                            *)
(***************************************************************************)
Accessors ==
    {"get", "get_utf8", "get_class", "get_name_and_type", "get_method",
     "resolve_type"}

accessor(op, pool, index, checks) ==
    CASE op = "get" -> get(pool, index, checks)
      [] op = "get_utf8" -> get_utf8(pool, index, checks)
      [] op = "get_class" -> get_class(pool, index, checks)
      [] op = "get_name_and_type" -> get_name_and_type(pool, index, checks)
      [] op = "get_method" -> get_method(pool, index, checks)
      [] op = "resolve_type" -> resolve_type(pool, index, checks)

InitAccessor ==
    /\ InitRest
    /\ \E op \in Accessors, index \in 0..(Len(TestPool) + 1), checks \in BOOLEAN :
           subject = [op |-> op, index |-> index, overflow_checks |-> checks]
    /\ outcome = None

CallAccessor ==
    /\ outcome = None
    /\ outcome' = Some(accessor(subject.op, constant_pool, subject.index,
                                subject.overflow_checks))
    /\ UNCHANGED subject

NextAccessor == CallAccessor /\ Unchanged

SpecAccessor == InitAccessor /\ [][NextAccessor]_vars

\* C32: constant-pool index 0 is never valid: get and every typed accessor
\* called with index 0, or with an index greater than the number of
\* entries, returns the MissingEntry error, and does not abort
C32_IndexZeroIsMissingEntry ==
    (/\ outcome # None
     /\ subject.index = 0 \/ subject.index > Len(constant_pool))
    => outcome[1] = Err("MissingEntry", subject.index)

\* the same for an index beyond the pool, and for index 0 in a build
\* without overflow checks
C32_BeyondThePool ==
    (/\ outcome # None
     /\ \/ subject.index > Len(constant_pool)
        \/ subject.index = 0 /\ ~subject.overflow_checks)
    => outcome[1] = Err("MissingEntry", subject.index)

(***************************************************************************)
(* JvmType::parse (model/types.rs), applied to the graphemes of a          *)
(* descriptor as it is written grapheme by grapheme.                       *)
(***************************************************************************)
MaxGraphemes == 3

Graphemes ==
    {"B", "C", "D", "F", "I", "J", "S", "Z", "V", "L", "A", ";", "[", "x"}

\* Iterator::take_while on the graphemes: the graphemes before the first
\* one that fails the predicate, which is consumed as well
RECURSIVE take_while_not(_, _)
take_while_not(graphemes, stop) ==
    IF graphemes = <<>> THEN [taken |-> <<>>, rest |-> <<>>]
    ELSE IF Head(graphemes) = stop
    THEN [taken |-> <<>>, rest |-> Tail(graphemes)]
    ELSE With(take_while_not(Tail(graphemes), stop),
              LAMBDA more : [taken |-> <<Head(graphemes)>> \o more.taken,
                             rest |-> more.rest])

Parsed(ty, rest) == [panic |-> FALSE, value |-> Some(ty), rest |-> rest]

\* JvmType::parse: the type, or None, and the graphemes left in the iterator
JvmType_parse(graphemes) ==
    IF graphemes = <<>>
    THEN [panic |-> FALSE, value |-> None, rest |-> <<>>]
    ELSE With(Tail(graphemes), LAMBDA rest :
         CASE Head(graphemes) = "B" -> Parsed([ty |-> "Byte"], rest)
           [] Head(graphemes) = "C" -> Parsed([ty |-> "Char"], rest)
           [] Head(graphemes) = "D" -> Parsed([ty |-> "Double"], rest)
           [] Head(graphemes) = "F" -> Parsed([ty |-> "Float"], rest)
           [] Head(graphemes) = "I" -> Parsed([ty |-> "Integer"], rest)
           [] Head(graphemes) = "J" -> Parsed([ty |-> "Long"], rest)
           [] Head(graphemes) = "S" -> Parsed([ty |-> "Long"], rest)
           [] Head(graphemes) = "Z" -> Parsed([ty |-> "Boolean"], rest)
           [] Head(graphemes) = "V" -> Parsed([ty |-> "Void"], rest)
           [] Head(graphemes) = "L" ->
                With(take_while_not(rest, ";"), LAMBDA class :
                     Parsed([ty |-> "Reference", class |-> class.taken],
                            class.rest))
           [] Head(graphemes) = "[" ->
                [panic |-> TRUE, value |-> None, rest |-> rest]
           [] OTHER -> [panic |-> FALSE, value |-> None, rest |-> rest])

InitType ==
    /\ InitRest
    /\ subject = <<>>
    /\ outcome = None

\* the descriptor has one more grapheme
AppendGrapheme(c) ==
    /\ Len(subject) < MaxGraphemes
    /\ subject' = Append(subject, c)
    /\ outcome' = None

ParseType ==
    /\ outcome = None
    /\ outcome' = Some(JvmType_parse(subject))
    /\ UNCHANGED subject

NextType ==
    \/ \E c \in Graphemes : AppendGrapheme(c) /\ Unchanged
    \/ ParseType /\ Unchanged

SpecType == InitType /\ [][NextType]_vars

\* the nominal type of each primitive tag of the JVM's descriptors
NominalType(tag) ==
    CASE tag = "B" -> "Byte"
      [] tag = "C" -> "Char"
      [] tag = "D" -> "Double"
      [] tag = "F" -> "Float"
      [] tag = "I" -> "Integer"
      [] tag = "J" -> "Long"
      [] tag = "S" -> "Short"
      [] tag = "Z" -> "Boolean"
      [] tag = "V" -> "Void"
      [] tag = "L" -> "Reference"

PrimitiveTags == {"B", "C", "D", "F", "I", "J", "S", "Z", "V"}

\* the parser returned the type, and left in the iterator the graphemes
\* from position `from` of the descriptor on
ParsedAs(ty, from) ==
    /\ ~outcome[1].panic
    /\ outcome[1].value # None
    /\ outcome[1].value[1].ty = ty
    /\ outcome[1].rest = SubSeq(subject, from, Len(subject))

\* the position of the first semicolon of the descriptor, or one beyond
\* its end
Semicolon ==
    IF \E i \in 1..Len(subject) : subject[i] = ";"
    THEN CHOOSE i \in 1..Len(subject) :
             subject[i] = ";" /\ \A j \in 1..(i - 1) : subject[j] # ";"
    ELSE Len(subject)

\* C37: the type-descriptor parser maps each primitive tag to its nominal
\* type (B byte, C char, D double, F float, I int, J long, S short,
\* Z boolean, V void) consuming the tag, and L...; to reference, consuming
\* through the semicolon
C37_TagsParseToNominalTypes ==
    (outcome # None /\ subject # <<>>) =>
        /\ Head(subject) \in PrimitiveTags
               => ParsedAs(NominalType(Head(subject)), 2)
        /\ Head(subject) = "L" => ParsedAs("Reference", Semicolon + 1)

\* the same for every tag but S
C37_TagsButShort ==
    (outcome # None /\ subject # <<>>) =>
        /\ Head(subject) \in PrimitiveTags \ {"S"}
               => ParsedAs(NominalType(Head(subject)), 2)
        /\ Head(subject) = "L"
               => /\ ParsedAs("Reference", Semicolon + 1)
                  /\ outcome[1].value[1].class
                         = SubSeq(subject, 2, IF subject[Semicolon] = ";"
                                              THEN Semicolon - 1
                                              ELSE Semicolon)

(***************************************************************************)
(* class_parser::parse (class_parser/mod.rs), applied to the bytes of a    *)
(* class file as it is written: the header with the constant-pool count,   *)
(* the constants one by one, and the rest of the file.  The files of the   *)
(* model declare no interfaces, fields, methods or attributes, and the     *)
(* payload of every constant is zero bytes.                                *)
(***************************************************************************)
MaxConstants == 2

Magic == <<202, 254, 186, 190>>

\* the tags the files of the model hold: Utf8, Integer, Long, Class,
\* NameAndType, and the tags of String and MethodHandle
FileTags == {1, 3, 5, 7, 12, 8, 15}

\* the tags parse_constants has an arm for
DecodedTags == {1, 3, 4, 5, 6, 7, 9, 10, 11, 12}

RECURSIVE Zeros(_)
Zeros(n) == IF n = 0 THEN <<>> ELSE <<0>> \o Zeros(n - 1)

\* the bytes that follow the tag of a constant in the file
payload_bytes(tag) ==
    CASE tag = 1 -> 2
      [] tag \in {3, 4} -> 4
      [] tag \in {5, 6} -> 8
      [] tag = 7 -> 2
      [] tag \in {9, 10, 11, 12} -> 4
      [] OTHER -> 0

\* ClassFileIterator::u16 at an offset where two bytes are left
u16_at(bytes, at) == bytes[at + 1] * 256 + bytes[at + 2]

\* the entries an arm of parse_constants pushes
entries_of(tag, bytes, at) ==
    CASE tag = 1 -> <<Utf8(SubSeq(bytes, at + 3, at + 2 + u16_at(bytes, at)))>>
      [] tag = 3 -> <<[tag |-> "Integer", bytes |-> SubSeq(bytes, at + 1, at + 4)]>>
      [] tag = 4 -> <<[tag |-> "Float", bytes |-> SubSeq(bytes, at + 1, at + 4)]>>
      [] tag = 5 -> <<[tag |-> "Long", bytes |-> SubSeq(bytes, at + 1, at + 8)], [tag |-> "Empty"]>>
      [] tag = 6 -> <<[tag |-> "Double", bytes |-> SubSeq(bytes, at + 1, at + 8)], [tag |-> "Empty"]>>
      [] tag = 7 -> <<ClassEntry(u16_at(bytes, at))>>
      [] tag = 9 -> <<UnresolvedField(u16_at(bytes, at), u16_at(bytes, at + 2))>>
      [] tag = 10 -> <<UnresolvedMethod(u16_at(bytes, at), u16_at(bytes, at + 2))>>
      [] tag = 11 -> <<[tag |-> "InterfaceMethodReference", class |-> u16_at(bytes, at), name_and_type |-> u16_at(bytes, at + 2)]>>
      [] tag = 12 -> <<NameAndType(u16_at(bytes, at), u16_at(bytes, at + 2))>>

\* the loop of parse_constants from entry i on, the iterator at `at`
RECURSIVE constants_from(_, _, _, _, _)
constants_from(bytes, at, i, count, constants) ==
    IF i >= count THEN [ok |-> TRUE, value |-> constants, at |-> at]
    ELSE IF at + 1 > Len(bytes) THEN Err("UnexpectedEOF", i)
    ELSE With(bytes[at + 1], LAMBDA tag :
         IF tag \notin DecodedTags THEN Err("UnknownConstantTag", tag)
         ELSE IF at + 1 + payload_bytes(tag) > Len(bytes)
         THEN Err("UnexpectedEOF", i)
         ELSE IF tag = 1 /\ at + 3 + u16_at(bytes, at + 1) > Len(bytes)
         THEN Err("UnexpectedEOF", i)
         ELSE constants_from(
                  bytes,
                  at + 1 + payload_bytes(tag)
                     + (IF tag = 1 THEN u16_at(bytes, at + 1) ELSE 0),
                  i + (IF tag \in {5, 6} THEN 2 ELSE 1), count,
                  constants \o entries_of(tag, bytes, at + 1)))

\* parse_constants, the iterator behind the version: the count in the file
\* is the number of entries plus one, and `iter.u16()? - 1` is a u16
\* subtraction
parse_constants(bytes, checks) ==
    IF 10 > Len(bytes) THEN Err("UnexpectedEOF", 0)
    ELSE IF u16_at(bytes, 8) = 0
    THEN IF checks THEN Err("panic", 0)
         ELSE constants_from(bytes, 10, 0, 65535, <<>>)
    ELSE constants_from(bytes, 10, 0, u16_at(bytes, 8) - 1, <<>>)

\* the u16 values parse reads after the constant pool in a file without
\* interfaces, fields, methods and attributes: access flags, this, super
\* and the four counts, which are zero
rest_of_file(bytes, at) ==
    IF at + 14 > Len(bytes) THEN Err("UnexpectedEOF", 0)
    ELSE Ok([access_flags |-> u16_at(bytes, at),
             this_class |-> u16_at(bytes, at + 2),
             super_class |-> u16_at(bytes, at + 4)])

\* class_parser::parse: Ok with the class, the error it returns to its
\* caller, or a panic; the result of parse_constants is unwrapped
parse(bytes, checks) ==
    IF 4 > Len(bytes) THEN Err("UnexpectedEOF", 0)
    ELSE IF SubSeq(bytes, 1, 4) # Magic THEN Err("MissingMagicNumber", 0)
    ELSE IF 8 > Len(bytes) THEN Err("UnexpectedEOF", 0)
    ELSE With(parse_constants(bytes, checks), LAMBDA pool :
         IF ~pool.ok THEN Err("panic", pool.error)
         ELSE With(rest_of_file(bytes, pool.at), LAMBDA rest :
              IF ~rest.ok THEN rest
              ELSE Ok([constant_pool |-> pool.value,
                       this_class |-> rest.value.this_class,
                       super_class |-> rest.value.super_class])))

InitFile ==
    /\ InitRest
    /\ \E first \in {202, 0}, count \in 0..(MaxConstants + 1), checks \in BOOLEAN :
           subject = [bytes |-> <<first>> \o Tail(Magic) \o <<0, 0, 0, 52>>
                                \o <<0, count>>,
                      tags |-> <<>>, complete |-> FALSE,
                      overflow_checks |-> checks]
    /\ outcome = None

\* the file has one more constant
AppendConstant(tag) ==
    /\ ~subject.complete
    /\ Len(subject.tags) < MaxConstants
    /\ subject' = [subject EXCEPT
                       !.bytes = @ \o <<tag>> \o Zeros(payload_bytes(tag)),
                       !.tags = Append(@, tag)]
    /\ outcome' = None

\* the file has its part after the constant pool
AppendRest ==
    /\ ~subject.complete
    /\ subject' = [subject EXCEPT !.bytes = @ \o Zeros(14),
                                  !.complete = TRUE]
    /\ outcome' = None

ParseFile ==
    /\ outcome = None
    /\ outcome' = Some(parse(subject.bytes, subject.overflow_checks))
    /\ UNCHANGED subject

NextFile ==
    \/ \E tag \in FileTags : AppendConstant(tag) /\ Unchanged
    \/ AppendRest /\ Unchanged
    \/ ParseFile /\ Unchanged

SpecFile == InitFile /\ [][NextFile]_vars

\* the pool entries the constants before the k-th of the file take up
RECURSIVE EntriesBefore(_)
EntriesBefore(k) ==
    IF k <= 1 THEN 0
    ELSE EntriesBefore(k - 1) + (IF subject.tags[k - 1] \in {5, 6} THEN 2 ELSE 1)

\* the k-th constant of the file is the first with a tag the decoder does
\* not know, and it is inside the constant pool the file declares
FirstUnknown(k) ==
    /\ k \in 1..Len(subject.tags)
    /\ subject.tags[k] \notin DecodedTags
    /\ \A j \in 1..(k - 1) : subject.tags[j] \in DecodedTags
    /\ subject.bytes[1] = 202
    /\ EntriesBefore(k) + 1 < u16_at(subject.bytes, 8)

\* C33: a class file whose constant pool contains an entry with a tag the
\* decoder does not know makes parse return the error
\* UnknownConstantTag(tag) to its caller
C33_UnknownTagIsReturned ==
    \A k \in 1..MaxConstants :
        (outcome # None /\ FirstUnknown(k))
        => outcome[1] = Err("UnknownConstantTag", subject.tags[k])

\* parse_constants itself returns that error for such a file
C33_DecoderReportsUnknownTag ==
    \A k \in 1..MaxConstants :
        FirstUnknown(k)
        => parse_constants(subject.bytes, subject.overflow_checks)
               = Err("UnknownConstantTag", subject.tags[k])

\* a complete file of known constants, as many as it declares, parses
C33_KnownFilesParse ==
    (/\ outcome # None
     /\ subject.complete
     /\ subject.bytes[1] = 202
     /\ \A j \in 1..Len(subject.tags) : subject.tags[j] \in DecodedTags
     /\ EntriesBefore(Len(subject.tags) + 1) + 1 = u16_at(subject.bytes, 8))
    => /\ outcome[1].ok
       /\ Len(outcome[1].value.constant_pool) = u16_at(subject.bytes, 8) - 1

\* the operand bytes that follow an opcode in the JVM encoding, for the
\* opcodes that do not branch
OperandBytes(opcode) == IF opcode \in IndexedOpcodes THEN 1 ELSE 0

\* the instruction executed last fell through to the instruction after it
FellThrough ==
    /\ interpreted = NotInterpreted
    /\ executed # NotExecuted
    /\ executed.opcode \notin BranchOpcodes \cup {IRETURN, RETURN}

\* C36: on fall-through, every non-branch opcode advances pc by 1 plus the
\* number of its operand bytes: LCMP, FCMPG, FCMPL, DCMPG and DCMPL advance
\* pc by 1, every xLOAD and xSTORE with an index byte advances pc by 2
C36_PcAdvancesByInstructionLength ==
    FellThrough
    => executed.next_pc = executed.pc + 1 + OperandBytes(executed.opcode)

\* the same for every opcode but the comparisons and LLOAD and DLOAD
C36_OtherOpcodesAdvance ==
    (FellThrough /\ executed.opcode \notin CompareOpcodes \cup {LLOAD, DLOAD})
    => executed.next_pc = executed.pc + 1 + OperandBytes(executed.opcode)

\* the comparisons advance pc by 3, LLOAD and DLOAD by 1
C36_ComparisonsAndWideLoads ==
    FellThrough
    => /\ executed.opcode \in CompareOpcodes
              => executed.next_pc = executed.pc + 3
       /\ executed.opcode \in {LLOAD, DLOAD}
              => executed.next_pc = executed.pc + 1

\* the evaluation stack's top after the i-th of the values pushed
TopAfterPush(i) ==
    IF i = Len(pushes) THEN Len(operands) ELSE pushes[i + 1].stack_end

\* every push_value and pop_type that completed moved slots(type) slots
MovedSlotsOfType ==
    /\ \A i \in 1..Len(pushes) :
           TopAfterPush(i) = pushes[i].stack_end + slots(pushes[i].ty)
    /\ popped # NoPop
           => popped.before_push = popped.stack_end
              /\ Len(operands) = popped.stack_end

\* C38: push_value(value, type) and pop_type(type) are defined for every
\* JvmType and move exactly slots(type) slots (2 for long and double, 1 for
\* byte, char, short, boolean, int, float and reference), so that the
\* field instructions and the push of a return value complete for every type
C38_DefinedForEveryType ==
    /\ interpreted.outcome # "panic"
    /\ MovedSlotsOfType

\* the same for the types int, long, float, double and reference: the
\* pushes and pops that complete move slots(type) slots, and a push that
\* does not complete is one of a byte, char, short or boolean
C38_WordTypesMoveTheirSlots ==
    /\ MovedSlotsOfType
    /\ interpreted.outcome = "panic"
           => interpreted.ty \in {"Byte", "Char", "Short", "Boolean"}
    /\ \A ty \in {"Integer", "Long", "Float", "Double", "Reference"} :
       \A value \in ValuesOf(ty) :
           ~push_value(operands, value, ty).panic
           /\ ~pop_type(push_value(operands, value, ty).slots, ty).panic

\* the method on top returns to a caller
ReturnsToCaller ==
    /\ Len(call_stack) > 1
    /\ Len(call_stack') = Len(call_stack) - 1

\* C39: caller and callee evaluation areas do not overlap: for every
\* invocation at any nesting depth, the slots of the caller below the
\* arguments it pushed for the call (and with them the slots of every
\* frame below the caller's) hold the same values when the callee returns
\* as when the call was made
C39_CallerSlotsKept ==
    [][ReturnsToCaller
        => \A a \in 0..(Top.tos_before - Top.pushed - 1) :
               stack'[a] = Top.caller_slots[a]]_vars

\* while a callee runs, its caller's slots below the arguments stay as
\* they were when the call was made
C39_CallerSlotsKeptDuringCall ==
    \A k \in 2..Len(call_stack) :
    \A a \in 0..(call_stack[k].tos_before - call_stack[k].pushed - 1) :
        stack[a] = call_stack[k].caller_slots[a]

\* a callee called from a callee has returned to a caller that holds
\* slots below the arguments of the call, after writing its own frame
C39_Witness ==
    /\ Len(call_stack) = 2
    /\ last_return # NoReturn
    /\ last_return.tos_before > call_stack[2].frame_base
    /\ last_return.tos_after > last_return.tos_before
    /\ \E a \in call_stack[2].frame_base..(last_return.tos_before - 1) :
           stack[a] # Uninit

\* the bytes [offset, offset + size) of a mapped field of the layout
FieldRange(layout, n) ==
    layout.fields[n].offset
        ..(layout.fields[n].offset + size(layout.fields[n].ty) - 1)

\* the bytes of a recorded free space of the layout
SpaceRange(layout, i) ==
    layout.spaces[i].index
        ..(layout.spaces[i].index + layout.spaces[i].length - 1)

\* C40: in every layout produced by layout_fields, over any chain of parent
\* layouts starting from the empty layout, the byte ranges of distinct
\* mapped fields are pairwise disjoint, lie inside [0, total_bytes), and
\* are disjoint from every recorded free space
C40_FieldRangesDisjoint ==
    /\ \A n, m \in DOMAIN field_layout.fields :
           n # m => FieldRange(field_layout, n) \cap FieldRange(field_layout, m) = {}
    /\ \A n \in DOMAIN field_layout.fields :
           FieldRange(field_layout, n) \subseteq 0..(field_layout.length - 1)
    /\ \A n \in DOMAIN field_layout.fields :
       \A i \in 1..Len(field_layout.spaces) :
           FieldRange(field_layout, n) \cap SpaceRange(field_layout, i) = {}

\* a sub class's layout in which a field lies in what was a free space of
\* the super class's layout, next to other fields and a free space
C40_Witness ==
    /\ chain >= 2
    /\ Cardinality(DOMAIN field_layout.fields) >= 3
    /\ field_layout.spaces # <<>>
    /\ \E n \in DOMAIN field_layout.fields :
       \E i \in 1..Len(super_layout.spaces) :
           /\ n \notin DOMAIN super_layout.fields
           /\ FieldRange(field_layout, n) \subseteq SpaceRange(super_layout, i)

(***************************************************************************)
(* MethodTable::add_method on a table at its capacity (model/method.rs,    *)
(* list.rs).  The tables are made by MethodTable::new(length) for small    *)
(* lengths and filled by add_method.  NativeList::set writes through       *)
(* `list.offset(index)` without a bound: a write at an index beyond the    *)
(* allocation is undefined behaviour, which either lands in the memory     *)
(* behind the region (subject.past_end) or faults.                         *)
(***************************************************************************)
MaxCapacity == 2

MaxPastEnd == 2

\* the capacity of the call table: the length handed to NativeList::alloc
capacity(table) == Cardinality(DOMAIN table.call_table)

\* the pointer patch_call_table stores for an implementation
pointer_of(implementation) ==
    IF implementation.kind = "Native"
    THEN entry_pointer(implementation.buffer)
    ELSE interpreter_trampoline

\* MethodTable::add_method on a table with the memory behind its call
\* table: the outcomes the call can have
add_method_outcomes(table, past_end, implementation, data) ==
    IF method_count(table) < capacity(table)
    THEN {[table |-> add_method(table, implementation, data).table,
           past_end |-> past_end, fault |-> FALSE,
           index |-> method_count(table)]}
    ELSE {[table |-> [table EXCEPT !.methods =
                         Append(@, [implementation |-> implementation,
                                    data |-> data])],
           past_end |-> Append(past_end,
                               [index |-> method_count(table),
                                pointer |-> pointer_of(implementation)]),
           fault |-> FALSE, index |-> method_count(table)],
          [table |-> table, past_end |-> past_end, fault |-> TRUE,
           index |-> method_count(table)]}

InitCapacity ==
    /\ InitRest
    /\ \E length \in 1..MaxCapacity :
           subject = [table |-> MethodTableNew(length), past_end |-> <<>>]
    /\ outcome = None

\* methods.add_method(implementation, data)
AddMethodAtAnyCount(implementation, data) ==
    /\ IF outcome = None THEN TRUE ELSE ~outcome[1].fault
    /\ Len(subject.past_end) < MaxPastEnd
    /\ \E done \in add_method_outcomes(subject.table, subject.past_end,
                                        implementation, data) :
           /\ subject' = [table |-> done.table, past_end |-> done.past_end]
           /\ outcome' = Some([index |-> done.index, fault |-> done.fault,
                               count_before |-> method_count(subject.table)])

NextCapacity ==
    \E implementation \in {Interpreted, Native(1)}, data \in TableMethods :
        AddMethodAtAnyCount(implementation, data) /\ Unchanged

SpecCapacity == InitCapacity /\ [][NextCapacity]_vars

\* C35: exceeding a fixed capacity is a fatal error: add_method when
\* method_count already equals the capacity of the call table stops with a
\* fatal error instead of writing past the end of the region
C35_AddAtCapacityIsFatal ==
    /\ subject.past_end = <<>>
    /\ (outcome # None /\ outcome[1].count_before >= capacity(subject.table))
           => outcome[1].fault

\* below the capacity add_method writes the slot of the index it returns
\* and nothing behind the region
C35_AddBelowCapacity ==
    (outcome # None /\ outcome[1].count_before < capacity(subject.table))
    => /\ ~outcome[1].fault
       /\ outcome[1].index = outcome[1].count_before
       /\ method_count(subject.table) = outcome[1].index + 1
       /\ subject.table.call_table[outcome[1].index]
              = pointer_of(subject.table.methods[outcome[1].index + 1]
                               .implementation)
       /\ Len(subject.past_end) = 0

(***************************************************************************)
(* The code jit::compile_method generates for an instruction (jit/mod.rs)  *)
(* and the arm of interpret for the same instruction, run from the same    *)
(* evaluation stack.  r12 is the top-of-stack pointer of the generated     *)
(* code: the stack is the sequence of the evaluation below it.  The             *)
(* instructions are those compile_method has an arm for; LDC, LDC_W and    *)
(* LDC2_W load from the constant pool LoadablePool of the owning class.    *)
(***************************************************************************)
LoadablePool ==
    << IntegerEntry(7),
       [tag |-> "Float", value |-> <<16256, 0>>],
       [tag |-> "Long", value |-> <<0, 0, 0, 1>>],
       [tag |-> "Empty"],
       [tag |-> "Double", value |-> <<16368, 0, 0, 0>>],
       [tag |-> "Empty"],
       Utf8("s") >>

\* Class::get_loadable: the type and the value of a loadable constant
get_loadable(pool, index, checks) ==
    With(get(pool, index, checks), LAMBDA value :
        IF ~value.ok THEN value
        ELSE IF value.value.tag \in {"Integer", "Long", "Float", "Double"}
        THEN Ok([ty |-> value.value.tag, value |-> value.value.value])
        ELSE IF value.value.tag \in {"String", "Class"} THEN Err("panic", index)
        ELSE Err("NotLoadable", index))

\* the pool index an LDC, LDC_W or LDC2_W at `at` names
ldc_index(code, at) ==
    IF code[at + 1] = LDC THEN code[at + 2]
    ELSE code[at + 2] * 256 + code[at + 3]

\* the arms LDC and LDC_W | LDC2_W of interpret: get_loadable and push_value
interpret_ldc(code, at, evaluation, pool, checks) ==
    With(get_loadable(pool, ldc_index(code, at), checks), LAMBDA loaded :
        IF ~loaded.ok
        THEN [kind |-> loaded.error.kind, pc |-> 0, slots |-> evaluation, value |-> <<>>]
        ELSE With(push_value(evaluation, loaded.value.value, loaded.value.ty),
                  LAMBDA pushed :
                      IF pushed.panic THEN Panicking(evaluation)
                      ELSE Continue(at + (IF code[at + 1] = LDC THEN 2 ELSE 3),
                                    pushed.slots)))

\* the iteration of the loop of interpret for an instruction
interpreted_instruction(code, at, evaluation, pool, checks) ==
    IF code[at + 1] \in {LDC, LDC_W, LDC2_W}
    THEN interpret_ldc(code, at, evaluation, pool, checks)
    ELSE step(code, at, evaluation, <<>>, checks)

\* the code of jit::push_constant, run: mov DWORD [r12], value; add r12, 4
jit_push_constant(evaluation, value) == Append(evaluation, value)

\* the code of jit::push_wide_constant, run: mov DWORD [r12], value.0;
\* mov DWORD [r12 + 4], value.0; add r12, 8
jit_push_wide_constant(evaluation, value) == evaluation \o <<value[1], value[1]>>

\* the code of jit::push_constant_type, run
jit_push_constant_type(evaluation, value, ty) ==
    CASE ty = "Integer" -> [slots |-> jit_push_constant(evaluation, from_int(value)), panic |-> FALSE]
      [] ty = "Long" -> [slots |-> jit_push_wide_constant(evaluation, from_long(value)), panic |-> FALSE]
      [] ty = "Float" -> [slots |-> jit_push_constant(evaluation, value), panic |-> FALSE]
      [] ty = "Double" -> [slots |-> jit_push_wide_constant(evaluation, from_long(value)), panic |-> FALSE]
      [] ty = "Reference" -> [slots |-> jit_push_constant(evaluation, from_reference(value)), panic |-> FALSE]
      [] OTHER -> [slots |-> evaluation, panic |-> TRUE]

\* the code of jit::pop, run: sub r12, 4; mov eax, [r12]
jit_pop(evaluation) == [value |-> evaluation[Len(evaluation)], slots |-> SubSeq(evaluation, 1, Len(evaluation) - 1)]

\* the arm of compile_method for the instruction at code_index, and the
\* code it generates run on the stack: the stack afterwards and the
\* code_index of the next instruction, or the value in eax at a return
compiled_instruction(code, code_index, evaluation, pool, checks) ==
    With(code[code_index + 1], LAMBDA opcode :
    CASE opcode \in {ICONST_M1, ICONST_0, ICONST_1, ICONST_2, ICONST_3, ICONST_4, ICONST_5} ->
            Continue(code_index + 1, jit_push_constant(evaluation, from_int(opcode - ICONST_0)))
      [] opcode \in {LCONST_0, LCONST_1} ->
            Continue(code_index + 1,
                     jit_push_wide_constant(evaluation, from_long(long_constant(opcode - LCONST_0))))
      [] opcode \in {FCONST_0, FCONST_1, FCONST_2} ->
            Continue(code_index + 1, jit_push_constant(evaluation, float_constant(opcode - FCONST_0)))
      [] opcode \in {DCONST_0, DCONST_1} ->
            Continue(code_index + 1,
                     jit_push_wide_constant(evaluation, from_long(double_constant(opcode - DCONST_0))))
      [] opcode = BIPUSH ->
            Continue(code_index + 2,
                     jit_push_constant(evaluation, from_int(i8_from_be_bytes(code[code_index + 2]))))
      [] opcode = SIPUSH ->
            Continue(code_index + 3,
                     jit_push_constant(evaluation, from_int(i16_from_be_bytes(code[code_index + 2],
                                                                         code[code_index + 3]))))
      [] opcode \in {LDC, LDC_W, LDC2_W} ->
            With(get_loadable(pool, ldc_index(code, code_index), checks), LAMBDA loaded :
                IF ~loaded.ok
                THEN [kind |-> loaded.error.kind, pc |-> 0, slots |-> evaluation, value |-> <<>>]
                ELSE With(jit_push_constant_type(evaluation, loaded.value.value, loaded.value.ty),
                          LAMBDA pushed :
                              IF pushed.panic THEN Panicking(evaluation)
                              ELSE Continue(code_index + (IF opcode = LDC THEN 2 ELSE 3),
                                            pushed.slots)))
      [] opcode = RETURN -> Break(<<>>, evaluation)
      [] opcode = IRETURN ->
            With(jit_pop(evaluation), LAMBDA top : Break(as_int(top.value), top.slots))
      [] OTHER -> Panicking(evaluation))

\* the instructions compile_method translates, with their operand bytes
CompiledInstructions ==
    {<<opcode>> : opcode \in {ICONST_M1, ICONST_0, ICONST_1, ICONST_2, ICONST_3, ICONST_4,
                              ICONST_5, LCONST_0, LCONST_1, FCONST_0, FCONST_1, FCONST_2,
                              DCONST_0, DCONST_1, IRETURN, RETURN}}
    \cup {<<BIPUSH, byte>> : byte \in {0, 1, 127, 128, 255}}
    \cup {<<SIPUSH, byte1, byte2>> : byte1 \in {0, 127, 128, 255}, byte2 \in {0, 255}}
    \cup {<<LDC, index>> : index \in 1..(Len(LoadablePool) + 1)}
    \cup {<<opcode, 0, index>> : opcode \in {LDC_W, LDC2_W}, index \in 1..(Len(LoadablePool) + 1)}

\* the evaluation stacks the instruction is run from
StackStates == {<<from_int(7)>>, <<from_int(-1), from_int(7)>>}

NotRun == [kind |-> "none"]

InitCompile ==
    /\ InitRest
    /\ \E code \in CompiledInstructions, evaluation \in StackStates :
           subject = [code |-> code, slots |-> evaluation]
    /\ outcome = [interpreted |-> NotRun, compiled |-> NotRun]

\* the interpreter executes the instruction
RunInterpreted ==
    /\ outcome.interpreted = NotRun
    /\ outcome' = [outcome EXCEPT !.interpreted =
                       interpreted_instruction(subject.code, 0, subject.slots,
                                               LoadablePool, overflow_checks)]
    /\ UNCHANGED subject

\* the code compile_method generated for the instruction runs
RunCompiled ==
    /\ outcome.compiled = NotRun
    /\ outcome' = [outcome EXCEPT !.compiled =
                       compiled_instruction(subject.code, 0, subject.slots,
                                            LoadablePool, overflow_checks)]
    /\ UNCHANGED subject

NextCompile ==
    \/ RunInterpreted /\ Unchanged
    \/ RunCompiled /\ Unchanged

SpecCompile == InitCompile /\ [][NextCompile]_vars

BothRan == outcome.interpreted # NotRun /\ outcome.compiled # NotRun

\* the instructions that push a long or a double
WideInstruction ==
    \/ subject.code[1] \in {LCONST_0, LCONST_1, DCONST_0, DCONST_1}
    \/ /\ subject.code[1] \in {LDC, LDC_W, LDC2_W}
       /\ ldc_index(subject.code, 0) \in {3, 5}

\* C34: compiler/interpreter equivalence: for every opcode the compiler
\* translates, running the generated code from a stack state yields the
\* same slot contents and the same top of stack as the interpreter
\* executing the opcode from that state; a wide constant occupies two
\* evaluation, the high word and then the low word
C34_CompiledEqualsInterpreted ==
    BothRan =>
        /\ outcome.compiled.kind = outcome.interpreted.kind
        /\ outcome.compiled.slots = outcome.interpreted.slots
        /\ Len(outcome.compiled.slots) = Len(outcome.interpreted.slots)
        /\ outcome.compiled.value = outcome.interpreted.value

\* the same for the instructions that push one slot or return, and for the
\* top of stack after a wide constant; the interpreter pushes the high
\* word and then the low word, the generated code the high word twice
C34_NarrowInstructionsAgree ==
    BothRan =>
        /\ outcome.compiled.kind = outcome.interpreted.kind
        /\ outcome.compiled.pc = outcome.interpreted.pc
        /\ Len(outcome.compiled.slots) = Len(outcome.interpreted.slots)
        /\ outcome.compiled.value = outcome.interpreted.value
        /\ ~WideInstruction => outcome.compiled.slots = outcome.interpreted.slots
        /\ (WideInstruction /\ outcome.compiled.kind = "continue") =>
               With(Len(subject.slots), LAMBDA n :
                   /\ SubSeq(outcome.compiled.slots, 1, n + 1)
                          = SubSeq(outcome.interpreted.slots, 1, n + 1)
                   /\ outcome.compiled.slots[n + 2] = outcome.interpreted.slots[n + 1])


====
